---- MODULE Spec2Model ----
(***************************************************************************)
(* The PostgREST query builder of supabase-go (package postgrest_go):      *)
(* Client, RequestBuilder, Query/Filter/Select request builders, the       *)
(* parameter sanitizer and ExecuteWithContext.                             *)
(*                                                                         *)
(* A Go string is a sequence of one-character strings, so that the code's  *)
(* string operations (ContainsAny, ReplaceAll, Join, Split, Sprintf,       *)
(* Encode) are computed character by character.  Header names are the      *)
(* code's literals, which are already in canonical MIME form, and are      *)
(* kept as atoms.  A url.Values or http.Header map is a function whose     *)
(* DOMAIN is the set of keys present, each key holding the sequence of     *)
(* its values.                                                             *)
(***************************************************************************)
EXTENDS Integers, Sequences, FiniteSets, TLC

VARIABLES
    defaultHeaders, \* Client.defaultHeaders
    clientOpts,     \* the schemas of the WithSchema options given to NewClient (ghost)
    rbs,            \* the RequestBuilders returned by Client.From, in call order
    qbs,            \* the Query/Filter/Select builders, in creation order
    thr,            \* per RequestBuilder: the goroutine that chains and executes it
    log,            \* history of the Filter and Not calls (ghost)
    ncalls,         \* number of calls made so far (ghost, bounds the run)
    fn              \* input and outputs of the sanitizer functions

vars == <<defaultHeaders, clientOpts, rbs, qbs, thr, log, ncalls, fn>>

----------------------------------------------------------------------------
(* Bounds *)

MaxFrom == 2        \* Client.From calls
MaxBuilders == 2    \* builders produced by the entry points
MaxCalls == 5       \* calls of From, the entry points, the chained methods and Execute
MaxLen == 4         \* length of a sanitizer input

----------------------------------------------------------------------------
(* Strings *)

Quote == "\""

\* strings.Join(elems, sep) with a one-character separator
RECURSIVE Join(_, _)
Join(elems, sep) ==
    IF Len(elems) = 0 THEN <<>>
    ELSE IF Len(elems) = 1 THEN elems[1]
    ELSE elems[1] \o <<sep>> \o Join(Tail(elems), sep)

\* strings.ContainsAny(s, chars)
ContainsAny(s, chars) ==
    \E i \in 1..Len(s) : \E j \in 1..Len(chars) : s[i] = chars[j]

\* strings.ReplaceAll(s, old, new) for one-character old and new
ReplaceAll(s, old, new) ==
    [i \in 1..Len(s) |-> IF s[i] = old THEN new ELSE s[i]]

----------------------------------------------------------------------------
(* Parameter sanitizer *)

reservedChars == <<",", ".", ":", "(", ")">>

SanitizeParam_NoColon(param) ==
    IF ContainsAny(param, <<",", ".", "(", ")">>)
    THEN <<Quote>> \o param \o <<Quote>>
    ELSE param

SanitizeParam(param) ==
    IF ContainsAny(param, reservedChars)
    THEN <<Quote>> \o param \o <<Quote>>
    ELSE param

SanitizePatternParam_KeepPercent(pattern) ==
    SanitizeParam(pattern)

SanitizePatternParam(pattern) ==
    SanitizeParam(ReplaceAll(pattern, "%", "*"))

----------------------------------------------------------------------------
(* Literals of the code *)

NotDot == <<"n","o","t",".">>
OpEq == <<"e","q">>
OpLte == <<"l","t","e">>
OpGte == <<"g","t","e">>
OpIn == <<"i","n">>
OpCs == <<"c","s">>
OpCd == <<"c","d">>
OpOv == <<"o","v">>
OpAd == <<"a","d">>

SelectKey == <<"s","e","l","e","c","t">>
OrderKey == <<"o","r","d","e","r">>
RangeKey == <<"r","a","n","g","e">>
SingleRowKey == <<"s","i","n","g","l","e","-","r","o","w">>
TrueStr == <<"t","r","u","e">>

ApplicationJson ==
    <<"a","p","p","l","i","c","a","t","i","o","n","/","j","s","o","n">>
Public == <<"p","u","b","l","i","c">>
ReturnRepresentation ==
    <<"r","e","t","u","r","n","=","r","e","p","r","e","s","e","n","t","a","t","i","o","n">>
ReturnRepresentationMerge ==
    <<"r","e","t","u","r","n","=","r","e","p","r","e","s","e","n","t","a","t","i","o","n",
      ",","r","e","s","o","l","u","t","i","o","n","=",
      "m","e","r","g","e","-","d","u","p","l","i","c","a","t","e","s">>
CountExact == <<"c","o","u","n","t","=","e","x","a","c","t">>
Items == <<"i","t","e","m","s">>
ObjectJson ==
    <<"a","p","p","l","i","c","a","t","i","o","n","/","v","n","d",".",
      "p","g","r","s","t",".","o","b","j","e","c","t","+","j","s","o","n">>

\* the nil interface value of a payload or of a result container
Nil == "nil"

----------------------------------------------------------------------------
(* Number formatting: fmt.Sprintf("%d", n) *)

Digit(d) == <<"0","1","2","3","4","5","6","7","8","9">>[d + 1]

RECURSIVE Itoa(_)
Itoa(n) ==
    IF n < 0 THEN <<"-">> \o Itoa(-n)
    ELSE IF n < 10 THEN <<Digit(n)>>
    ELSE Itoa(n \div 10) \o <<Digit(n % 10)>>

----------------------------------------------------------------------------
(* url.Values and http.Header *)

EmptyMap == [k \in {} |-> <<>>]

\* url.Values.Add(key, value): append to the values of key
ValuesAdd(m, key, value) ==
    [k \in DOMAIN m \cup {key} |->
        IF k = key
        THEN (IF key \in DOMAIN m THEN Append(m[key], value) ELSE <<value>>)
        ELSE m[k]]

\* url.Values.Set(key, value): replace the values of key by the one value
ValuesSet(m, key, value) ==
    [k \in DOMAIN m \cup {key} |-> IF k = key THEN <<value>> ELSE m[k]]

\* http.Header.Set(key, value), for a key in canonical form
HeaderSet(h, key, value) ==
    [k \in DOMAIN h \cup {key} |-> IF k = key THEN <<value>> ELSE h[k]]

----------------------------------------------------------------------------
(* Client *)

\* Client.AddHeader, on the value of defaultHeaders
AddHeader(h, key, value) == HeaderSet(h, key, value)

WithSchema_AcceptOnly(h, schema) ==
    AddHeader(h, "Accept-Profile", schema)

\* the ClientOption returned by WithSchema(schema), applied to defaultHeaders
WithSchema(h, schema) ==
    AddHeader(AddHeader(h, "Accept-Profile", schema), "Content-Profile", schema)

RECURSIVE ApplyOptions(_, _)
ApplyOptions(h, opts) ==
    IF opts = <<>> THEN h
    ELSE ApplyOptions(WithSchema(h, opts[1]), Tail(opts))

\* NewClient(baseURL, opts...), opts a list of WithSchema arguments
NewClient(opts) ==
    ApplyOptions(
        HeaderSet(HeaderSet(HeaderSet(HeaderSet(EmptyMap,
            "Accept", ApplicationJson),
            "Content-Type", ApplicationJson),
            "Accept-Profile", Public),
            "Content-Profile", Public),
        opts)

\* the inputs of the model
Tables == {<<"t">>}
Payloads == {"p1", "p2"}
ColumnLists == {<<>>, <<(<<"a">>)>>, <<(<<"a">>), (<<"b">>)>>}
Columns == {<<"x">>, <<":","c">>}
Values == {<<"a">>, <<"b",".","c">>}
Directions == {<<"a","s","c">>, <<"d","e","s","c">>}
Sizes == {2}
Starts == {0, 3}

\* an http.Request as built by ExecuteWithContext
NoRequest ==
    [method |-> "", url |-> <<>>, query |-> <<>>, header |-> EmptyMap, body |-> <<>>]

\* an http.Response, as far as ExecuteWithContext reads it; contentRange is
\* resp.Header.Get("Content-Range"), empty when the header is absent
NoResponse == [status |-> 0, body |-> <<>>, contentRange |-> <<>>]

\* the variable a result container points to: written is set once a decoder
\* has stored into it, num holds a decoded number, doc a decoded document
NoOut == [written |-> FALSE, num |-> 0, doc |-> <<>>]

\* the error returned by Execute; kind "nil" is the nil error
\* and kind "RequestError" a *RequestError with the fields after it
NoErr ==
    [kind |-> "nil", status |-> 0,
     message |-> <<>>, details |-> <<>>, hint |-> <<>>, code |-> <<>>]

\* the goroutine of a RequestBuilder: pc is "waiting" while it is inside
\* session.Do, b and r are the builder and the result container of its
\* Execute call, req the request it sent, resp the response it got, count
\* the b.isCount it read, out and err what the call left, limit the
\* arguments of its last LimitWithOffset call and order those of its last
\* OrderBy call (ghost)
NoLimit == [called |-> FALSE, size |-> 0, start |-> 0]

NoOrder == [called |-> FALSE, column |-> <<>>, direction |-> <<>>]

IdleThread ==
    [pc |-> "idle", b |-> 0, r |-> Nil, req |-> NoRequest, resp |-> NoResponse,
     count |-> FALSE, out |-> NoOut, err |-> NoErr, sends |-> 0, execs |-> 0,
     limit |-> NoLimit, order |-> NoOrder]

Idle(rb) == rb \in 1..Len(rbs) /\ thr[rb].pc = "idle"

\* Client.From(table)
From(table) ==
    /\ Len(rbs) < MaxFrom
    /\ ncalls < MaxCalls
    /\ rbs' = Append(rbs, [path |-> <<"/">> \o table,
                           header |-> EmptyMap,
                           params |-> EmptyMap])
    /\ thr' = Append(thr, IdleThread)
    /\ ncalls' = ncalls + 1
    /\ UNCHANGED <<defaultHeaders, clientOpts, qbs, log, fn>>

----------------------------------------------------------------------------
(* RequestBuilder: the entry points.  The builder returned shares the      *)
(* params and header maps of its RequestBuilder (Go maps are references),  *)
(* so both stay in rbs and the builder records which RequestBuilder it     *)
(* came from.  entry, arg and cols record the call that made the builder   *)
(* (ghost).                                                                *)

CanEnter(rb) == Idle(rb) /\ Len(qbs) < MaxBuilders /\ ncalls < MaxCalls

NewBuilder(rb, kind, method, payload, entry, arg, cols) ==
    /\ qbs' = Append(qbs, [rb |-> rb, kind |-> kind, httpMethod |-> method,
                           json |-> payload, isCount |-> FALSE,
                           negateNext |-> FALSE,
                           entry |-> entry, arg |-> arg, cols |-> cols])
    /\ ncalls' = ncalls + 1
    /\ UNCHANGED <<defaultHeaders, clientOpts, thr, log, fn>>

Select_Add(rb, columns) ==
    /\ CanEnter(rb)
    /\ rbs' = [rbs EXCEPT ![rb].params = ValuesAdd(@, SelectKey, Join(columns, ","))]
    /\ NewBuilder(rb, "select", "GET", Nil, "Select", Nil, columns)

Select(rb, columns) ==
    /\ CanEnter(rb)
    /\ rbs' = [rbs EXCEPT ![rb].params = ValuesSet(@, SelectKey, Join(columns, ","))]
    /\ NewBuilder(rb, "select", "GET", Nil, "Select", Nil, columns)

Insert(rb, json) ==
    /\ CanEnter(rb)
    /\ rbs' = [rbs EXCEPT ![rb].header = HeaderSet(@, "Prefer", ReturnRepresentation)]
    /\ NewBuilder(rb, "query", "POST", json, "Insert", json, <<>>)

Upsert_Put(rb, json) ==
    /\ CanEnter(rb)
    /\ rbs' = [rbs EXCEPT ![rb].header = HeaderSet(@, "Prefer", ReturnRepresentationMerge)]
    /\ NewBuilder(rb, "query", "PUT", json, "Upsert", json, <<>>)

Upsert_NoMerge(rb, json) ==
    /\ CanEnter(rb)
    /\ rbs' = [rbs EXCEPT ![rb].header = HeaderSet(@, "Prefer", ReturnRepresentation)]
    /\ NewBuilder(rb, "query", "POST", json, "Upsert", json, <<>>)

Upsert(rb, json) ==
    /\ CanEnter(rb)
    /\ rbs' = [rbs EXCEPT ![rb].header = HeaderSet(@, "Prefer", ReturnRepresentationMerge)]
    /\ NewBuilder(rb, "query", "POST", json, "Upsert", json, <<>>)

Update(rb, json) ==
    /\ CanEnter(rb)
    /\ rbs' = [rbs EXCEPT ![rb].header = HeaderSet(@, "Prefer", ReturnRepresentation)]
    /\ NewBuilder(rb, "filter", "PATCH", json, "Update", json, <<>>)

Delete_FreshMaps(rb) ==
    /\ CanEnter(rb)
    /\ rbs' = [rbs EXCEPT ![rb].params = EmptyMap, ![rb].header = EmptyMap]
    /\ NewBuilder(rb, "filter", "DELETE", Nil, "Delete", Nil, <<>>)

Delete(rb) ==
    /\ CanEnter(rb)
    /\ rbs' = rbs
    /\ NewBuilder(rb, "filter", "DELETE", Nil, "Delete", Nil, <<>>)

----------------------------------------------------------------------------
(* Chained builder calls.  A call is made by the goroutine that owns the   *)
(* RequestBuilder, which is not inside Execute.                            *)

Callable(b, kinds) ==
    /\ b \in 1..Len(qbs)
    /\ qbs[b].kind \in kinds
    /\ Idle(qbs[b].rb)
    /\ ncalls < MaxCalls

FilterKinds == {"filter", "select"}

NoFilter == [b |-> 0, call |-> "none", column |-> <<>>, operator |-> <<>>, criteria |-> <<>>]

Not_Toggle(b) ==
    /\ Callable(b, FilterKinds)
    /\ qbs' = [qbs EXCEPT ![b].negateNext = ~@]
    /\ log' = Append(log, [NoFilter EXCEPT !.b = b, !.call = "Not"])
    /\ ncalls' = ncalls + 1
    /\ UNCHANGED <<defaultHeaders, clientOpts, rbs, thr, fn>>

\* FilterRequestBuilder.Not
Not(b) ==
    /\ Callable(b, FilterKinds)
    /\ qbs' = [qbs EXCEPT ![b].negateNext = TRUE]
    /\ log' = Append(log, [NoFilter EXCEPT !.b = b, !.call = "Not"])
    /\ ncalls' = ncalls + 1
    /\ UNCHANGED <<defaultHeaders, clientOpts, rbs, thr, fn>>

Filter_Set(b, column, operator, criteria) ==
    /\ Callable(b, FilterKinds)
    /\ LET op == IF qbs[b].negateNext THEN NotDot \o operator ELSE operator
       IN  rbs' = [rbs EXCEPT ![qbs[b].rb].params =
                       ValuesSet(@, column, op \o <<".">> \o criteria)]
    /\ qbs' = [qbs EXCEPT ![b].negateNext = FALSE]
    /\ log' = Append(log, [b |-> b, call |-> "Filter", column |-> column,
                           operator |-> operator, criteria |-> criteria])
    /\ ncalls' = ncalls + 1
    /\ UNCHANGED <<defaultHeaders, clientOpts, thr, fn>>

Filter_KeepNegate(b, column, operator, criteria) ==
    /\ Callable(b, FilterKinds)
    /\ LET op == IF qbs[b].negateNext THEN NotDot \o operator ELSE operator
       IN  rbs' = [rbs EXCEPT ![qbs[b].rb].params =
                       ValuesAdd(@, column, op \o <<".">> \o criteria)]
    /\ qbs' = qbs
    /\ log' = Append(log, [b |-> b, call |-> "Filter", column |-> column,
                           operator |-> operator, criteria |-> criteria])
    /\ ncalls' = ncalls + 1
    /\ UNCHANGED <<defaultHeaders, clientOpts, thr, fn>>

\* FilterRequestBuilder.Filter
Filter(b, column, operator, criteria) ==
    /\ Callable(b, FilterKinds)
    /\ LET op == IF qbs[b].negateNext THEN NotDot \o operator ELSE operator
       IN  rbs' = [rbs EXCEPT ![qbs[b].rb].params =
                       ValuesAdd(@, column, op \o <<".">> \o criteria)]
    /\ qbs' = [qbs EXCEPT ![b].negateNext = FALSE]
    /\ log' = Append(log, [b |-> b, call |-> "Filter", column |-> column,
                           operator |-> operator, criteria |-> criteria])
    /\ ncalls' = ncalls + 1
    /\ UNCHANGED <<defaultHeaders, clientOpts, thr, fn>>

\* FilterRequestBuilder.Eq, .Lte, .Gte (the other comparison methods differ
\* from these only in the operator literal)
Eq(b, column, value) == Filter(b, column, OpEq, SanitizeParam(value))

Lte(b, column, value) == Filter(b, column, OpLte, SanitizeParam(value))

Gte(b, column, value) == Filter(b, column, OpGte, SanitizeParam(value))

\* the loop of the list operators: sanitized[i] = SanitizeParam(value)
Sanitized(values) == [i \in 1..Len(values) |-> SanitizeParam(values[i])]

In_Unsanitized(b, column, values) ==
    Filter(b, column, OpIn, <<"(">> \o Join(values, ",") \o <<")">>)

\* FilterRequestBuilder.In
In(b, column, values) ==
    Filter(b, column, OpIn, <<"(">> \o Join(Sanitized(values), ",") \o <<")">>)

\* FilterRequestBuilder.Cs
Cs(b, column, values) ==
    Filter(b, column, OpCs, <<"{">> \o Join(Sanitized(values), ",") \o <<"}">>)

\* FilterRequestBuilder.Cd
Cd(b, column, values) ==
    Filter(b, column, OpCd, <<"{">> \o Join(Sanitized(values), ",") \o <<"}">>)

\* FilterRequestBuilder.Ov
Ov(b, column, values) ==
    Filter(b, column, OpOv, <<"{">> \o Join(Sanitized(values), ",") \o <<"}">>)

\* FilterRequestBuilder.Ad
Ad(b, column, values) ==
    Filter(b, column, OpAd, <<"{">> \o Join(Sanitized(values), ",") \o <<"}">>)

SetParam_Fresh(b, key, value) ==
    /\ Callable(b, {"select"})
    /\ rbs' = [rbs EXCEPT ![qbs[b].rb].params = ValuesSet(EmptyMap, key, value)]
    /\ ncalls' = ncalls + 1
    /\ UNCHANGED <<defaultHeaders, clientOpts, qbs, log, fn>>

\* a SelectRequestBuilder call that sets one query parameter
SetParam(b, key, value) ==
    /\ Callable(b, {"select"})
    /\ rbs' = [rbs EXCEPT ![qbs[b].rb].params = ValuesSet(@, key, value)]
    /\ ncalls' = ncalls + 1
    /\ UNCHANGED <<defaultHeaders, clientOpts, qbs, log, fn>>

OrderBy_Add(b, column, direction) ==
    /\ Callable(b, {"select"})
    /\ rbs' = [rbs EXCEPT ![qbs[b].rb].params =
                   ValuesAdd(@, OrderKey, column \o <<".">> \o direction)]
    /\ thr' = [thr EXCEPT ![qbs[b].rb].order =
                   [called |-> TRUE, column |-> column, direction |-> direction]]
    /\ ncalls' = ncalls + 1
    /\ UNCHANGED <<defaultHeaders, clientOpts, qbs, log, fn>>

\* SelectRequestBuilder.OrderBy
OrderBy(b, column, direction) ==
    /\ SetParam(b, OrderKey, column \o <<".">> \o direction)
    /\ thr' = [thr EXCEPT ![qbs[b].rb].order =
                   [called |-> TRUE, column |-> column, direction |-> direction]]

\* SelectRequestBuilder.Range
Range(b, from, to) ==
    /\ SetParam(b, RangeKey, Itoa(from) \o <<"-">> \o Itoa(to))
    /\ UNCHANGED thr

\* SelectRequestBuilder.SingleRow
SingleRow(b) ==
    /\ SetParam(b, SingleRowKey, TrueStr)
    /\ UNCHANGED thr

LimitWithOffset_EndExclusive(b, size, start) ==
    /\ Callable(b, {"select"})
    /\ rbs' = [rbs EXCEPT ![qbs[b].rb].header =
                   HeaderSet(HeaderSet(@, "Range-Unit", Items),
                             "Range", Itoa(start) \o <<"-">> \o Itoa(start + size))]
    /\ thr' = [thr EXCEPT ![qbs[b].rb].limit =
                   [called |-> TRUE, size |-> size, start |-> start]]
    /\ ncalls' = ncalls + 1
    /\ UNCHANGED <<defaultHeaders, clientOpts, qbs, log, fn>>

\* SelectRequestBuilder.LimitWithOffset
LimitWithOffset(b, size, start) ==
    /\ Callable(b, {"select"})
    /\ rbs' = [rbs EXCEPT ![qbs[b].rb].header =
                   HeaderSet(HeaderSet(@, "Range-Unit", Items),
                             "Range", Itoa(start) \o <<"-">> \o Itoa(start + size - 1))]
    /\ thr' = [thr EXCEPT ![qbs[b].rb].limit =
                   [called |-> TRUE, size |-> size, start |-> start]]
    /\ ncalls' = ncalls + 1
    /\ UNCHANGED <<defaultHeaders, clientOpts, qbs, log, fn>>

\* SelectRequestBuilder.Limit
Limit(b, size) == LimitWithOffset(b, size, 0)

\* SelectRequestBuilder.Single
Single(b) ==
    /\ Callable(b, {"select"})
    /\ rbs' = [rbs EXCEPT ![qbs[b].rb].header = HeaderSet(@, "Accept", ObjectJson)]
    /\ ncalls' = ncalls + 1
    /\ UNCHANGED <<defaultHeaders, clientOpts, qbs, thr, log, fn>>

Count_KeepMethod(b) ==
    /\ Callable(b, {"select"})
    /\ rbs' = [rbs EXCEPT ![qbs[b].rb].header = HeaderSet(@, "Prefer", CountExact)]
    /\ qbs' = [qbs EXCEPT ![b].isCount = TRUE]
    /\ ncalls' = ncalls + 1
    /\ UNCHANGED <<defaultHeaders, clientOpts, thr, log, fn>>

\* SelectRequestBuilder.Count
Count(b) ==
    /\ Callable(b, {"select"})
    /\ rbs' = [rbs EXCEPT ![qbs[b].rb].header = HeaderSet(@, "Prefer", CountExact)]
    /\ qbs' = [qbs EXCEPT ![b].isCount = TRUE, ![b].httpMethod = "HEAD"]
    /\ ncalls' = ncalls + 1
    /\ UNCHANGED <<defaultHeaders, clientOpts, thr, log, fn>>

----------------------------------------------------------------------------
(* Query encoding: url.Values.Encode and url.QueryUnescape *)

\* the printable ASCII characters, from code 32 to code 126 (the grave
\* accent, code 96, cannot be written in a string here and is spelled out)
Ascii ==
    <<
      " ", "!", "\"", "#", "$", "%", "&", "'", "(", ")", "*", "+", ",", "-", ".", "/",
      "0", "1", "2", "3", "4", "5", "6", "7", "8", "9", ":", ";", "<", "=", ">", "?",
      "@", "A", "B", "C", "D", "E", "F", "G", "H", "I", "J", "K", "L", "M", "N", "O",
      "P", "Q", "R", "S", "T", "U", "V", "W", "X", "Y", "Z", "[", "\\", "]", "^", "_",
      "grave", "a", "b", "c", "d", "e", "f", "g", "h", "i", "j", "k", "l", "m", "n", "o",
      "p", "q", "r", "s", "t", "u", "v", "w", "x", "y", "z", "{", "|", "}", "~"
    >>

Code(c) == 31 + CHOOSE i \in 1..Len(Ascii) : Ascii[i] = c

Chr(n) == Ascii[n - 31]

HexDigits == <<"0","1","2","3","4","5","6","7","8","9","A","B","C","D","E","F">>

IsHex(c) == \E i \in 1..16 : HexDigits[i] = c

HexVal(c) == (CHOOSE i \in 1..16 : HexDigits[i] = c) - 1

\* byte-wise order of two strings, as sort.Strings orders the keys
RECURSIVE StrLess(_, _)
StrLess(a, b) ==
    IF b = <<>> THEN FALSE
    ELSE IF a = <<>> THEN TRUE
    ELSE IF a[1] # b[1] THEN Code(a[1]) < Code(b[1])
    ELSE StrLess(Tail(a), Tail(b))

RECURSIVE SortStrings(_)
SortStrings(S) ==
    IF S = {} THEN <<>>
    ELSE LET m == CHOOSE x \in S : \A y \in S \ {x} : StrLess(x, y)
         IN  <<m>> \o SortStrings(S \ {m})

\* url.QueryEscape: letters, digits and - _ . ~ are kept, a space becomes +,
\* every other byte becomes %XX
Unreserved(c) ==
    \/ Code(c) \in 48..57
    \/ Code(c) \in 65..90
    \/ Code(c) \in 97..122
    \/ c \in {"-", "_", ".", "~"}

EscapeChar(c) ==
    IF Unreserved(c) THEN <<c>>
    ELSE IF c = " " THEN <<"+">>
    ELSE <<"%", HexDigits[(Code(c) \div 16) + 1], HexDigits[(Code(c) % 16) + 1]>>

RECURSIVE QueryEscape(_)
QueryEscape(str) ==
    IF str = <<>> THEN <<>> ELSE EscapeChar(str[1]) \o QueryEscape(Tail(str))

\* url.QueryUnescape: [ok, s]; not ok on a % that two hex digits do not follow
RECURSIVE QueryUnescape(_)
QueryUnescape(str) ==
    IF str = <<>> THEN [ok |-> TRUE, s |-> <<>>]
    ELSE IF str[1] = "%"
    THEN IF Len(str) >= 3 /\ IsHex(str[2]) /\ IsHex(str[3])
         THEN LET rest == QueryUnescape(SubSeq(str, 4, Len(str)))
              IN  [ok |-> rest.ok,
                   s |-> <<Chr(16 * HexVal(str[2]) + HexVal(str[3]))>> \o rest.s]
         ELSE [ok |-> FALSE, s |-> <<>>]
    ELSE LET rest == QueryUnescape(Tail(str))
         IN  [ok |-> rest.ok,
              s |-> <<IF str[1] = "+" THEN " " ELSE str[1]>> \o rest.s]

\* the key=value pairs of one key, each preceded by & unless it is the first
RECURSIVE EncodeValues(_, _, _)
EncodeValues(key, vals, first) ==
    IF vals = <<>> THEN <<>>
    ELSE (IF first THEN <<>> ELSE <<"&">>)
         \o QueryEscape(key) \o <<"=">> \o QueryEscape(vals[1])
         \o EncodeValues(key, Tail(vals), FALSE)

RECURSIVE EncodeKeys(_, _, _)
EncodeKeys(m, keys, first) ==
    IF keys = <<>> THEN <<>>
    ELSE LET part == EncodeValues(keys[1], m[keys[1]], first)
         IN  part \o EncodeKeys(m, Tail(keys), first /\ part = <<>>)

\* url.Values.Encode: sorted by key, the values of a key in their order
Encode(m) == EncodeKeys(m, SortStrings(DOMAIN m), TRUE)

----------------------------------------------------------------------------
(* JSON: json.Marshal of a payload and json.Unmarshal into a result        *)
(* container, on the documents of the model.                               *)

NullJSON == <<"n","u","l","l">>
RowsJSON == <<"[","]">>
ObjectJSON == <<"{","}">>

\* a payload json.Marshal returns an error for, such as one holding a channel
Unserialisable == "chan"

\* whether json.Marshal(b.json) returns no error
Marshalable(json) == json # Unserialisable

\* json.Marshal(b.json): the nil payload marshals to null
Marshal(json) ==
    IF json = Nil THEN NullJSON
    ELSE IF json = "p1" THEN ObjectJSON
    ELSE <<"[","{","}","]">>

IsDigit(c) == \E d \in 0..9 : Digit(d) = c

DigitVal(c) == CHOOSE d \in 0..9 : Digit(d) = c

\* a JSON number without sign, fraction or exponent
IsJSONNat(str) ==
    /\ Len(str) >= 1
    /\ \A i \in 1..Len(str) : IsDigit(str[i])
    /\ Len(str) > 1 => str[1] # "0"

RECURSIVE ParseNat(_)
ParseNat(str) ==
    IF str = <<>> THEN 0
    ELSE 10 * ParseNat(SubSeq(str, 1, Len(str) - 1)) + DigitVal(str[Len(str)])

\* a JSON string without escapes at the head of str: [ok, str, rest]
ParseString(str) ==
    IF Len(str) < 2 \/ str[1] # Quote THEN [ok |-> FALSE, str |-> <<>>, rest |-> <<>>]
    ELSE LET closing == {j \in 2..Len(str) : str[j] = Quote}
         IN  IF closing = {} THEN [ok |-> FALSE, str |-> <<>>, rest |-> <<>>]
             ELSE LET j == CHOOSE i \in closing : \A k \in closing : i <= k
                      inner == SubSeq(str, 2, j - 1)
                  IN  [ok |-> \A i \in 1..Len(inner) : inner[i] # "\\",
                       str |-> inner,
                       rest |-> SubSeq(str, j + 1, Len(str))]

\* the members "key":"value" of an object, separated by commas: [ok, fields]
RECURSIVE ParseMembers(_)
ParseMembers(str) ==
    LET key == ParseString(str)
        val == ParseString(Tail(key.rest))
        bad == [ok |-> FALSE, fields |-> <<>>]
    IN  IF ~key.ok \/ key.rest = <<>> \/ key.rest[1] # ":" THEN bad
        ELSE IF ~val.ok THEN bad
        ELSE IF val.rest = <<>> THEN [ok |-> TRUE, fields |-> <<(<<key.str, val.str>>)>>]
        ELSE IF val.rest[1] # "," THEN bad
        ELSE LET more == ParseMembers(Tail(val.rest))
             IN  [ok |-> more.ok, fields |-> <<(<<key.str, val.str>>)>> \o more.fields]

\* a JSON object whose values are strings, written without white space
ParseObject(data) ==
    IF Len(data) < 2 \/ data[1] # "{" \/ data[Len(data)] # "}"
    THEN [ok |-> FALSE, fields |-> <<>>]
    ELSE IF Len(data) = 2 THEN [ok |-> TRUE, fields |-> <<>>]
    ELSE ParseMembers(SubSeq(data, 2, Len(data) - 1))

\* strings.Split(str, sep) for a one-character sep
RECURSIVE Split(_, _)
Split(str, sep) ==
    IF \A i \in 1..Len(str) : str[i] # sep THEN <<str>>
    ELSE LET i == CHOOSE j \in 1..Len(str) :
                      str[j] = sep /\ \A k \in 1..(j - 1) : str[k] # sep
         IN  <<SubSeq(str, 1, i - 1)>> \o Split(SubSeq(str, i + 1, Len(str)), sep)

\* the kind of a document that is not an array
ScalarKind(data) ==
    IF IsJSONNat(data) THEN "number"
    ELSE IF data = NullJSON THEN "null"
    ELSE IF ParseObject(data).ok THEN "object"
    ELSE "invalid"

\* a JSON array of numbers, nulls and objects without a comma inside, written
\* without white space: [ok, elems]
ParseArray(data) ==
    IF Len(data) < 2 \/ data[1] # "[" \/ data[Len(data)] # "]"
    THEN [ok |-> FALSE, elems |-> <<>>]
    ELSE IF Len(data) = 2 THEN [ok |-> TRUE, elems |-> <<>>]
    ELSE LET elems == Split(SubSeq(data, 2, Len(data) - 1), ",")
         IN  [ok |-> \A i \in 1..Len(elems) : ScalarKind(elems[i]) # "invalid",
              elems |-> elems]

JSONKind(data) ==
    IF ScalarKind(data) # "invalid" THEN ScalarKind(data)
    ELSE IF ParseArray(data).ok THEN "array"
    ELSE "invalid"

\* the JSON text of a slice of n rows whose fields are all empty
RowsText(n) == <<"[">> \o Join([i \in 1..n |-> ObjectJSON], ",") \o <<"]">>

\* json.Unmarshal(data, r) for r nil, a pointer to an int ("int") or a pointer
\* to a slice of rows ("rows"), a row being a struct; out is the variable r
\* points to.  The document is checked for syntax before anything is
\* stored; an element of an array that is not an object is skipped, leaving
\* an empty row, and reported as a type error once the array is decoded.
Unmarshal(data, r, out) ==
    LET kind == JSONKind(data)
    IN  IF kind = "invalid" THEN [out |-> out, err |-> [NoErr EXCEPT !.kind = "syntax"]]
        ELSE IF r = Nil THEN [out |-> out, err |-> [NoErr EXCEPT !.kind = "invalidUnmarshal"]]
        ELSE IF kind = "null" THEN [out |-> out, err |-> NoErr]
        ELSE IF r = "int" /\ kind = "number"
        THEN [out |-> [written |-> TRUE, num |-> ParseNat(data), doc |-> <<>>],
              err |-> NoErr]
        ELSE IF r = "rows" /\ kind = "array"
        THEN LET elems == ParseArray(data).elems
             IN  [out |-> [written |-> TRUE, num |-> 0, doc |-> RowsText(Len(elems))],
                  err |-> IF \A i \in 1..Len(elems) :
                                 ScalarKind(elems[i]) \in {"object", "null"}
                          THEN NoErr
                          ELSE [NoErr EXCEPT !.kind = "type"]]
        ELSE [out |-> out, err |-> [NoErr EXCEPT !.kind = "type"]]

\* the value json.Unmarshal stores in a struct field tagged name: that of the
\* last member of the object with that key, or what the field held
RECURSIVE FieldOf(_, _, _)
FieldOf(fields, name, held) ==
    IF fields = <<>> THEN held
    ELSE IF fields[Len(fields)][1] = name THEN fields[Len(fields)][2]
    ELSE FieldOf(SubSeq(fields, 1, Len(fields) - 1), name, held)

\* the Go name of the field tagged json:"-"
StatusKey == <<"H","T","T","P","S","t","a","t","u","s","C","o","d","e">>

\* json.Unmarshal(body, &reqError): the error ExecuteWithContext returns on
\* a response outside 200-299; HTTPStatusCode is tagged json:"-" and keeps
\* the status of the response
UnmarshalRequestError_StatusFromBody(body, status) ==
    LET kind == JSONKind(body)
        reqError == [NoErr EXCEPT !.kind = "RequestError", !.status = status]
        fields == ParseObject(body).fields
    IN  IF kind = "invalid" THEN [NoErr EXCEPT !.kind = "syntax"]
        ELSE IF kind = "null" THEN reqError
        ELSE IF kind = "object"
        THEN [reqError EXCEPT
                 !.message = FieldOf(fields, <<"m","e","s","s","a","g","e">>, @),
                 !.details = FieldOf(fields, <<"d","e","t","a","i","l","s">>, @),
                 !.hint = FieldOf(fields, <<"h","i","n","t">>, @),
                 !.code = FieldOf(fields, <<"c","o","d","e">>, @),
                 !.status = IF IsJSONNat(FieldOf(fields, StatusKey, <<>>))
                            THEN ParseNat(FieldOf(fields, StatusKey, <<>>))
                            ELSE @]
        ELSE [NoErr EXCEPT !.kind = "type"]

UnmarshalRequestError_IgnoreParseFailure(body, status) ==
    [NoErr EXCEPT !.kind = "RequestError", !.status = status]

UnmarshalRequestError(body, status) ==
    LET kind == JSONKind(body)
        reqError == [NoErr EXCEPT !.kind = "RequestError", !.status = status]
        fields == ParseObject(body).fields
    IN  IF kind = "invalid" THEN [NoErr EXCEPT !.kind = "syntax"]
        ELSE IF kind = "null" THEN reqError
        ELSE IF kind = "object"
        THEN [reqError EXCEPT
                 !.message = FieldOf(fields, <<"m","e","s","s","a","g","e">>, @),
                 !.details = FieldOf(fields, <<"d","e","t","a","i","l","s">>, @),
                 !.hint = FieldOf(fields, <<"h","i","n","t">>, @),
                 !.code = FieldOf(fields, <<"c","o","d","e">>, @)]
        ELSE [NoErr EXCEPT !.kind = "type"]

----------------------------------------------------------------------------
(* QueryRequestBuilder.ExecuteWithContext.  The call is two steps of the   *)
(* calling goroutine: ExecuteSend runs the code up to session.Do, and      *)
(* ExecuteReceive or ExecuteTransportError runs it from the return of      *)
(* session.Do.                                                             *)

BaseURL == <<"h","t","t","p","s",":","/","/","h","/">>

MergeHeaders_DefaultsWin(defaults, header) ==
    [k \in DOMAIN defaults \cup {h \in DOMAIN header : header[h] # <<>>} |->
        IF k \in DOMAIN defaults
        THEN defaults[k]
        ELSE <<header[k][Len(header[k])]>>]

\* the header of the request: Client.Headers() overlaid by the builder's
MergeHeaders(defaults, header) ==
    [k \in DOMAIN defaults \cup {h \in DOMAIN header : header[h] # <<>>} |->
        IF k \in DOMAIN header /\ header[k] # <<>>
        THEN <<header[k][Len(header[k])]>>
        ELSE defaults[k]]

BuildRequest(b) ==
    LET rb == rbs[qbs[b].rb]
    IN  [method |-> qbs[b].httpMethod,
         url |-> BaseURL \o Tail(rb.path),
         query |-> QueryUnescape(Encode(rb.params)).s,
         header |-> MergeHeaders(defaultHeaders, rb.header),
         body |-> Marshal(qbs[b].json)]

\* whether http.NewRequestWithContext accepts the path as the URL: url.Parse
\* rejects a % that two hex digits do not follow
NewRequestOK(path) == QueryUnescape(path).ok

\* the error ExecuteWithContext returns before it calls session.Do, "none"
\* when it gets as far as the call
BuildFailure(b) ==
    IF ~Marshalable(qbs[b].json) THEN "marshal"
    ELSE IF ~NewRequestOK(rbs[qbs[b].rb].path) THEN "construct"
    ELSE IF ~QueryUnescape(Encode(rbs[qbs[b].rb].params)).ok THEN "unescape"
    ELSE "none"

ExecuteSend_SendsUnbuilt(b, r) ==
    /\ b \in 1..Len(qbs)
    /\ Idle(qbs[b].rb)
    /\ ncalls < MaxCalls
    /\ thr' = [thr EXCEPT ![qbs[b].rb] =
                  [@ EXCEPT !.pc = "waiting", !.b = b, !.r = r,
                            !.req = BuildRequest(b),
                            !.resp = NoResponse, !.out = NoOut,
                            !.err = NoErr, !.sends = @ + 1, !.execs = @ + 1]]
    /\ ncalls' = ncalls + 1
    /\ UNCHANGED <<defaultHeaders, clientOpts, rbs, qbs, log, fn>>

ExecuteSend_NoClone(b, r) ==
    /\ b \in 1..Len(qbs)
    /\ Idle(qbs[b].rb)
    /\ ncalls < MaxCalls
    /\ thr' = [thr EXCEPT ![qbs[b].rb] =
                  [@ EXCEPT !.pc = "waiting", !.b = b, !.r = r,
                            !.req = BuildRequest(b),
                            !.resp = NoResponse, !.out = NoOut,
                            !.err = NoErr, !.sends = @ + 1, !.execs = @ + 1]]
    /\ defaultHeaders' = MergeHeaders(defaultHeaders, rbs[qbs[b].rb].header)
    /\ ncalls' = ncalls + 1
    /\ UNCHANGED <<clientOpts, rbs, qbs, log, fn>>

\* ExecuteWithContext up to the call of session.Do
ExecuteSend(b, r) ==
    /\ b \in 1..Len(qbs)
    /\ Idle(qbs[b].rb)
    /\ ncalls < MaxCalls
    /\ thr' = [thr EXCEPT ![qbs[b].rb] =
                  IF BuildFailure(b) # "none"
                  THEN [@ EXCEPT !.b = b, !.r = r, !.resp = NoResponse, !.out = NoOut,
                                 !.err = [NoErr EXCEPT !.kind = BuildFailure(b)],
                                 !.execs = @ + 1]
                  ELSE [@ EXCEPT !.pc = "waiting", !.b = b, !.r = r,
                                 !.req = BuildRequest(b),
                                 !.resp = NoResponse, !.out = NoOut,
                                 !.err = NoErr, !.sends = @ + 1, !.execs = @ + 1]]
    /\ ncalls' = ncalls + 1
    /\ UNCHANGED <<defaultHeaders, clientOpts, rbs, qbs, log, fn>>

\* session.Do returns an error
ExecuteTransportError(rb) ==
    /\ rb \in 1..Len(rbs)
    /\ thr[rb].pc = "waiting"
    /\ thr' = [thr EXCEPT ![rb].pc = "idle",
                          ![rb].err = [NoErr EXCEPT !.kind = "transport"]]
    /\ UNCHANGED <<defaultHeaders, clientOpts, rbs, qbs, log, ncalls, fn>>

\* io.ReadAll(resp.Body) returns an error
ExecuteReadError(rb) ==
    /\ rb \in 1..Len(rbs)
    /\ thr[rb].pc = "waiting"
    /\ thr' = [thr EXCEPT ![rb].pc = "idle",
                          ![rb].err = [NoErr EXCEPT !.kind = "read"]]
    /\ UNCHANGED <<defaultHeaders, clientOpts, rbs, qbs, log, ncalls, fn>>

HandleResponse_Range(isCount, r, out, resp) ==
    IF ~(resp.status >= 200 /\ resp.status < 300)
    THEN [out |-> out, err |-> UnmarshalRequestError(resp.body, resp.status)]
    ELSE IF resp.status # 204 /\ r # Nil
    THEN IF isCount
         THEN LET contentRangeParts == Split(resp.contentRange, "/")
              IN  IF Len(contentRangeParts) # 2
                  THEN [out |-> out, err |-> [NoErr EXCEPT !.kind = "contentRange"]]
                  ELSE Unmarshal(contentRangeParts[1], r, out)
         ELSE Unmarshal(resp.body, r, out)
    ELSE [out |-> out, err |-> NoErr]

HandleResponse_AtLeastTwoParts(isCount, r, out, resp) ==
    IF ~(resp.status >= 200 /\ resp.status < 300)
    THEN [out |-> out, err |-> UnmarshalRequestError(resp.body, resp.status)]
    ELSE IF resp.status # 204 /\ r # Nil
    THEN IF isCount
         THEN LET contentRangeParts == Split(resp.contentRange, "/")
              IN  IF Len(contentRangeParts) < 2
                  THEN [out |-> out, err |-> [NoErr EXCEPT !.kind = "contentRange"]]
                  ELSE Unmarshal(contentRangeParts[2], r, out)
         ELSE Unmarshal(resp.body, r, out)
    ELSE [out |-> out, err |-> NoErr]

HandleResponse_DecodesNoContent(isCount, r, out, resp) ==
    IF ~(resp.status >= 200 /\ resp.status < 300)
    THEN [out |-> out, err |-> UnmarshalRequestError(resp.body, resp.status)]
    ELSE IF r # Nil
    THEN IF isCount
         THEN LET contentRangeParts == Split(resp.contentRange, "/")
              IN  IF Len(contentRangeParts) # 2
                  THEN [out |-> out, err |-> [NoErr EXCEPT !.kind = "contentRange"]]
                  ELSE Unmarshal(contentRangeParts[2], r, out)
         ELSE Unmarshal(resp.body, r, out)
    ELSE [out |-> out, err |-> NoErr]

\* ExecuteWithContext from the return of session.Do: [out, err]
HandleResponse(isCount, r, out, resp) ==
    IF ~(resp.status >= 200 /\ resp.status < 300)
    THEN [out |-> out, err |-> UnmarshalRequestError(resp.body, resp.status)]
    ELSE IF resp.status # 204 /\ r # Nil
    THEN IF isCount
         THEN LET contentRangeParts == Split(resp.contentRange, "/")
              IN  IF Len(contentRangeParts) # 2
                  THEN [out |-> out, err |-> [NoErr EXCEPT !.kind = "contentRange"]]
                  ELSE Unmarshal(contentRangeParts[2], r, out)
         ELSE Unmarshal(resp.body, r, out)
    ELSE [out |-> out, err |-> NoErr]

ExecuteReceive_ResetsParams(rb, resp) ==
    /\ rb \in 1..Len(rbs)
    /\ thr[rb].pc = "waiting"
    /\ LET res == HandleResponse(qbs[thr[rb].b].isCount, thr[rb].r, thr[rb].out, resp)
       IN  thr' = [thr EXCEPT ![rb].pc = "idle", ![rb].out = res.out,
                              ![rb].err = res.err, ![rb].resp = resp,
                              ![rb].count = qbs[thr[rb].b].isCount]
    /\ rbs' = [rbs EXCEPT ![rb].params = EmptyMap]
    /\ UNCHANGED <<defaultHeaders, clientOpts, qbs, log, ncalls, fn>>

\* session.Do returns the response resp
ExecuteReceive(rb, resp) ==
    /\ rb \in 1..Len(rbs)
    /\ thr[rb].pc = "waiting"
    /\ LET res == HandleResponse(qbs[thr[rb].b].isCount, thr[rb].r, thr[rb].out, resp)
       IN  thr' = [thr EXCEPT ![rb].pc = "idle", ![rb].out = res.out,
                              ![rb].err = res.err, ![rb].resp = resp,
                              ![rb].count = qbs[thr[rb].b].isCount]
    /\ UNCHANGED <<defaultHeaders, clientOpts, rbs, qbs, log, ncalls, fn>>

----------------------------------------------------------------------------
(* RpcRequestBuilder.  A RpcRequestBuilder is kept as a RequestBuilder      *)
(* with its own header map and no query parameters, together with its one  *)
(* builder of kind "rpc", whose json is the params of the call.            *)

\* Client.Rpc(f, params)
Rpc(f, params) ==
    /\ Len(rbs) < MaxFrom
    /\ Len(qbs) < MaxBuilders
    /\ ncalls < MaxCalls
    /\ rbs' = Append(rbs, [path |-> BaseURL \o <<"r","p","c","/">> \o f,
                           header |-> EmptyMap,
                           params |-> EmptyMap])
    /\ qbs' = Append(qbs, [rb |-> Len(rbs) + 1, kind |-> "rpc", httpMethod |-> "POST",
                           json |-> params, isCount |-> FALSE, negateNext |-> FALSE,
                           entry |-> "Rpc", arg |-> params, cols |-> <<>>])
    /\ thr' = Append(thr, IdleThread)
    /\ ncalls' = ncalls + 1
    /\ UNCHANGED <<defaultHeaders, clientOpts, log, fn>>

\* the request RpcRequestBuilder.ExecuteWithContext builds: the path holds
\* the base URL already and resolves to itself
RpcBuildRequest(b) ==
    LET rb == rbs[qbs[b].rb]
    IN  [method |-> qbs[b].httpMethod,
         url |-> rb.path,
         query |-> <<>>,
         header |-> MergeHeaders(defaultHeaders, rb.header),
         body |-> Marshal(qbs[b].json)]

RpcBuildFailure(b) ==
    IF ~Marshalable(qbs[b].json) THEN "marshal"
    ELSE IF ~NewRequestOK(rbs[qbs[b].rb].path) THEN "construct"
    ELSE "none"

\* RpcRequestBuilder.ExecuteWithContext up to the call of session.Do
RpcExecuteSend(b, result) ==
    /\ b \in 1..Len(qbs)
    /\ qbs[b].kind = "rpc"
    /\ Idle(qbs[b].rb)
    /\ ncalls < MaxCalls
    /\ thr' = [thr EXCEPT ![qbs[b].rb] =
                  IF RpcBuildFailure(b) # "none"
                  THEN [@ EXCEPT !.b = b, !.r = result, !.resp = NoResponse, !.out = NoOut,
                                 !.err = [NoErr EXCEPT !.kind = RpcBuildFailure(b)],
                                 !.execs = @ + 1]
                  ELSE [@ EXCEPT !.pc = "waiting", !.b = b, !.r = result,
                                 !.req = RpcBuildRequest(b),
                                 !.resp = NoResponse, !.out = NoOut,
                                 !.err = NoErr, !.sends = @ + 1, !.execs = @ + 1]]
    /\ ncalls' = ncalls + 1
    /\ UNCHANGED <<defaultHeaders, clientOpts, rbs, qbs, log, fn>>

\* the receiver r of ExecuteWithContext is the RpcRequestBuilder the method
\* was called on, never nil
ReceiverIsNil == FALSE

\* RpcRequestBuilder.ExecuteWithContext from the response on: the test
\* before json.Unmarshal is r != nil, on the receiver
RpcHandleResponse(result, out, resp) ==
    IF ~(resp.status >= 200 /\ resp.status < 300)
    THEN [out |-> out, err |-> UnmarshalRequestError(resp.body, resp.status)]
    ELSE IF resp.status # 204 /\ ~ReceiverIsNil
    THEN Unmarshal(resp.body, result, out)
    ELSE [out |-> out, err |-> NoErr]

\* session.Do returns the response resp to RpcRequestBuilder.ExecuteWithContext
RpcExecuteReceive(rb, resp) ==
    /\ rb \in 1..Len(rbs)
    /\ thr[rb].pc = "waiting"
    /\ qbs[thr[rb].b].kind = "rpc"
    /\ LET res == RpcHandleResponse(thr[rb].r, thr[rb].out, resp)
       IN  thr' = [thr EXCEPT ![rb].pc = "idle", ![rb].out = res.out,
                              ![rb].err = res.err, ![rb].resp = resp]
    /\ UNCHANGED <<defaultHeaders, clientOpts, rbs, qbs, log, ncalls, fn>>

----------------------------------------------------------------------------
(* Specification of the builder *)

NoFn == [in |-> <<>>, out |-> <<>>, pat |-> <<>>, param |-> FALSE, pattern |-> FALSE]

Init ==
    /\ clientOpts = <<>>
    /\ defaultHeaders = NewClient(clientOpts)
    /\ rbs = <<>>
    /\ qbs = <<>>
    /\ thr = <<>>
    /\ log = <<>>
    /\ ncalls = 0
    /\ fn = NoFn

Builders == 1..MaxBuilders

Next ==
    \/ \E table \in Tables : From(table)
    \/ \E rb \in 1..MaxFrom, columns \in ColumnLists : Select(rb, columns)
    \/ \E rb \in 1..MaxFrom, json \in Payloads : Insert(rb, json)
    \/ \E rb \in 1..MaxFrom, json \in Payloads : Upsert(rb, json)
    \/ \E rb \in 1..MaxFrom, json \in Payloads : Update(rb, json)
    \/ \E rb \in 1..MaxFrom : Delete(rb)
    \/ \E b \in Builders : Not(b)
    \/ \E b \in Builders, column \in Columns, value \in Values :
          Filter(b, column, OpEq, value)
    \/ \E b \in Builders, column \in Columns, value \in Values : Eq(b, column, value)
    \/ \E b \in Builders : Lte(b, <<"x">>, <<"a">>)
    \/ \E b \in Builders : Gte(b, <<"x">>, <<"b">>)
    \/ \E b \in Builders, column \in Columns, direction \in Directions :
          OrderBy(b, column, direction)
    \/ \E b \in Builders : Range(b, 0, 3)
    \/ \E b \in Builders : SingleRow(b)
    \/ \E b \in Builders, size \in Sizes, start \in Starts :
          LimitWithOffset(b, size, start)
    \/ \E b \in Builders, size \in Sizes : Limit(b, size)
    \/ \E b \in Builders : Single(b)
    \/ \E b \in Builders : Count(b)

Spec == Init /\ [][Next]_vars

----------------------------------------------------------------------------
(* Specification of execution: builders made by a few calls, executed     *)
(* with each kind of result container against each response.              *)

Containers == {Nil, "int", "rows"}
MixedJSON == <<"[","{","}",",","7","]">>
Bodies == {RowsJSON, MixedJSON, ObjectJSON, <<"7">>, <<"x">>}
ContentRanges == {<<"0","-","9","/","4","2">>, <<>>, <<"1","/","2","/","3">>}
NotFoundJSON ==
    <<"{","\"","m","e","s","s","a","g","e","\"",":","\"","n","o","t"," ","f",
      "o","u","n","d","\"",",","\"","c","o","d","e","\"",":","\"","P","G","R",
      "S","T","1","1","6","\"","}">>
StatusInBodyJSON ==
    <<"{","\"","h","i","n","t","\"",":","\"","h","\"",",","\"","H","T","T","P",
      "S","t","a","t","u","s","C","o","d","e","\"",":","\"","5","0","0","\"","}">>
ErrorBodies == Bodies \cup {NotFoundJSON, StatusInBodyJSON}
ErrorStatuses == {300, 404}
Responses ==
    {[status |-> 200, body |-> body, contentRange |-> cr] :
        body \in Bodies, cr \in ContentRanges}
    \cup {[status |-> 204, body |-> <<>>, contentRange |-> cr] : cr \in ContentRanges}
    \cup {[status |-> st, body |-> body, contentRange |-> <<>>] :
             st \in ErrorStatuses, body \in ErrorBodies}

NextExec ==
    \/ \E table \in Tables : From(table)
    \/ \E rb \in 1..MaxFrom : Select(rb, <<(<<"a">>)>>)
    \/ \E rb \in 1..MaxFrom : Insert(rb, "p1")
    \/ \E rb \in 1..MaxFrom : Delete(rb)
    \/ \E b \in Builders : Eq(b, <<"x">>, <<"a">>)
    \/ \E b \in Builders : Single(b)
    \/ \E b \in Builders : Count(b)
    \/ \E b \in Builders, r \in Containers : ExecuteSend(b, r)
    \/ \E rb \in 1..MaxFrom : ExecuteTransportError(rb)
    \/ \E rb \in 1..MaxFrom : ExecuteReadError(rb)
    \/ \E rb \in 1..MaxFrom, resp \in Responses : ExecuteReceive(rb, resp)

SpecExec == Init /\ [][NextExec]_vars

----------------------------------------------------------------------------
(* Specification of the Client: a Client built with each list of           *)
(* WithSchema options, and the requests it sends.                          *)

Private == <<"p","r","i","v","a","t","e">>
Schemas == {Private, <<"s">>}
OptionLists == {<<>>} \cup {<<a>> : a \in Schemas} \cup {<<a, b>> : a, b \in Schemas}

InitClient ==
    /\ clientOpts \in OptionLists
    /\ defaultHeaders = NewClient(clientOpts)
    /\ rbs = <<>>
    /\ qbs = <<>>
    /\ thr = <<>>
    /\ log = <<>>
    /\ ncalls = 0
    /\ fn = NoFn

NextClient ==
    \/ \E table \in Tables : From(table)
    \/ \E rb \in 1..MaxFrom : Select(rb, <<(<<"a">>)>>)
    \/ \E rb \in 1..MaxFrom : Update(rb, "p1")
    \/ \E b \in Builders : Single(b)
    \/ \E b \in Builders : ExecuteSend(b, Nil)
    \/ \E rb \in 1..MaxFrom : ExecuteTransportError(rb)

SpecClient == InitClient /\ [][NextClient]_vars

----------------------------------------------------------------------------
(* Specification of chaining: every kind of chained call on the builders   *)
(* of Select, with filters on columns named like the parameters that       *)
(* OrderBy and Range set.                                                  *)

ChainColumns == {<<"x">>, OrderKey, RangeKey}

NextChain ==
    \/ \E table \in Tables : From(table)
    \/ \E rb \in 1..MaxFrom : Select(rb, <<(<<"a">>)>>)
    \/ \E b \in Builders : Not(b)
    \/ \E b \in Builders, column \in ChainColumns : Filter(b, column, OpEq, <<"a">>)
    \/ \E b \in Builders : Eq(b, <<"x">>, <<"b",".","c">>)
    \/ \E b \in Builders : OrderBy(b, <<"x">>, <<"a","s","c">>)
    \/ \E b \in Builders : Range(b, 0, 3)
    \/ \E b \in Builders : SingleRow(b)
    \/ \E b \in Builders : Limit(b, 2)
    \/ \E b \in Builders : Single(b)
    \/ \E b \in Builders : Count(b)

SpecChain == Init /\ [][NextChain]_vars

----------------------------------------------------------------------------
(* Specification of sending: Execute calls, repeated, on builders whose    *)
(* payload cannot be serialized or whose path is not a URL, and on         *)
(* builders without such a fault.                                          *)

SendTables == {<<"t">>, <<"%">>}
SendPayloads == {"p1", Unserialisable}
SendResponses ==
    {[status |-> 200, body |-> RowsJSON, contentRange |-> <<>>],
     [status |-> 404, body |-> ObjectJSON, contentRange |-> <<>>]}

NextSend ==
    \/ \E table \in SendTables : From(table)
    \/ \E rb \in 1..MaxFrom, json \in SendPayloads : Insert(rb, json)
    \/ \E rb \in 1..MaxFrom : Delete(rb)
    \/ \E b \in Builders, r \in {Nil, "rows"} : ExecuteSend(b, r)
    \/ \E rb \in 1..MaxFrom : ExecuteTransportError(rb)
    \/ \E rb \in 1..MaxFrom : ExecuteReadError(rb)
    \/ \E rb \in 1..MaxFrom, resp \in SendResponses : ExecuteReceive(rb, resp)

SpecSend == Init /\ [][NextSend]_vars

----------------------------------------------------------------------------
(* Specification of sharing a Client: two goroutines, each with the        *)
(* RequestBuilder of its own From call on the one Client, build and        *)
(* execute in every interleaving.                                          *)

\* the RequestBuilder Client.From(table) returns
RequestBuilderOf(table) ==
    [path |-> <<"/">> \o table, header |-> EmptyMap, params |-> EmptyMap]

\* the state after From("t") and From("u"); the calls counted are those
\* made from here on
InitShare ==
    /\ clientOpts = <<>>
    /\ defaultHeaders = NewClient(clientOpts)
    /\ rbs = <<RequestBuilderOf(<<"t">>), RequestBuilderOf(<<"u">>)>>
    /\ qbs = <<>>
    /\ thr = <<IdleThread, IdleThread>>
    /\ log = <<>>
    /\ ncalls = 0
    /\ fn = NoFn

NextShare ==
    \/ \E rb \in 1..MaxFrom : Select(rb, <<(<<"a">>)>>)
    \/ \E rb \in 1..MaxFrom : Insert(rb, "p1")
    \/ \E b \in Builders : Eq(b, <<"x">>, <<"a">>)
    \/ \E b \in Builders : ExecuteSend(b, "rows")
    \/ \E rb \in 1..MaxFrom : ExecuteTransportError(rb)
    \/ \E rb \in 1..MaxFrom : ExecuteReceive(rb, [status |-> 200, body |-> RowsJSON,
                                                    contentRange |-> <<>>])

SpecShare == InitShare /\ [][NextShare]_vars

----------------------------------------------------------------------------
(* Specification of decoding: a Select builder, counting or not, executed  *)
(* with each kind of result container against success responses with each  *)
(* shape of Content-Range header.                                          *)

DecodeContentRanges ==
    {<<"0","-","9","/","4","2">>, <<>>, <<"4","2">>, <<"1","/","2","/","3">>, <<"/">>}
DecodeBodies == {RowsJSON, <<"7">>, <<"x">>, <<>>}
DecodeErrorBodies == DecodeBodies \cup {ObjectJSON, NullJSON, <<"{">>}
DecodeResponses ==
    {[status |-> st, body |-> body, contentRange |-> cr] :
        st \in {200, 204}, body \in DecodeBodies, cr \in DecodeContentRanges}
    \cup {[status |-> st, body |-> body, contentRange |-> <<>>] :
             st \in {404, 500}, body \in DecodeErrorBodies}

NextDecode ==
    \/ \E table \in Tables : From(table)
    \/ \E rb \in 1..MaxFrom : Select(rb, <<(<<"a">>)>>)
    \/ \E b \in Builders : Count(b)
    \/ \E b \in Builders, r \in Containers : ExecuteSend(b, r)
    \/ \E rb \in 1..MaxFrom, resp \in DecodeResponses : ExecuteReceive(rb, resp)

SpecDecode == Init /\ [][NextDecode]_vars

----------------------------------------------------------------------------
(* Specification of the list operators: In, Cs, Cd, Ov and Ad on the       *)
(* builders of Delete and Select, with lists of values with and without    *)
(* reserved characters, after Not and without it.                          *)

ValueLists == {<<>>, <<(<<"a">>)>>, <<(<<"a">>), (<<"b",".","c">>)>>}

NextList ==
    \/ \E table \in Tables : From(table)
    \/ \E rb \in 1..MaxFrom : Select(rb, <<(<<"a">>)>>)
    \/ \E rb \in 1..MaxFrom : Delete(rb)
    \/ \E b \in Builders : Not(b)
    \/ \E b \in Builders, values \in ValueLists : In(b, <<"c">>, values)
    \/ \E b \in Builders, values \in ValueLists : Cs(b, <<"c">>, values)
    \/ \E b \in Builders, values \in ValueLists : Cd(b, <<"c">>, values)
    \/ \E b \in Builders, values \in ValueLists : Ov(b, <<"c">>, values)
    \/ \E b \in Builders, values \in ValueLists : Ad(b, <<"c">>, values)

SpecList == Init /\ [][NextList]_vars

----------------------------------------------------------------------------
(* Specification of negation: Not, Eq, Count and Execute on the builders   *)
(* of From("t").Delete() and From("u").Select("a").                        *)

\* the builder an entry point returns for the RequestBuilder rb
BuilderOf(rb, kind, method, entry, cols) ==
    [rb |-> rb, kind |-> kind, httpMethod |-> method, json |-> Nil,
     isCount |-> FALSE, negateNext |-> FALSE,
     entry |-> entry, arg |-> Nil, cols |-> cols]

\* the state after From("t").Delete() and From("u").Select("a"); the calls
\* counted are those made from here on
InitNot ==
    /\ clientOpts = <<>>
    /\ defaultHeaders = NewClient(clientOpts)
    /\ rbs = <<RequestBuilderOf(<<"t">>),
               [RequestBuilderOf(<<"u">>) EXCEPT
                   !.params = ValuesSet(@, SelectKey, Join(<<(<<"a">>)>>, ","))]>>
    /\ qbs = <<BuilderOf(1, "filter", "DELETE", "Delete", <<>>),
               BuilderOf(2, "select", "GET", "Select", <<(<<"a">>)>>)>>
    /\ thr = <<IdleThread, IdleThread>>
    /\ log = <<>>
    /\ ncalls = 0
    /\ fn = NoFn

NextNot ==
    \/ \E b \in Builders : Not(b)
    \/ \E b \in Builders : Eq(b, <<"x">>, <<"a">>)
    \/ \E b \in Builders : Count(b)
    \/ \E b \in Builders : ExecuteSend(b, "rows")
    \/ \E rb \in 1..MaxFrom : ExecuteReceive(rb, [status |-> 200, body |-> RowsJSON,
                                                    contentRange |-> <<>>])

SpecNot == InitNot /\ [][NextNot]_vars

----------------------------------------------------------------------------
(* Specification of repeated execution: Execute, again and again, on       *)
(* builders already made, with and without a build failure, against        *)
(* success and error responses and transport failures.                     *)

\* From("t") followed by Delete().Eq("x", "a").Not(), by Insert("p1") or by
\* Insert of a value that cannot be serialized
PreparedOnT ==
    {[rb |-> [RequestBuilderOf(<<"t">>) EXCEPT
                 !.params = ValuesAdd(@, <<"x">>, OpEq \o <<".">> \o SanitizeParam(<<"a">>))],
      qb |-> [BuilderOf(1, "filter", "DELETE", "Delete", <<>>) EXCEPT !.negateNext = TRUE],
      log |-> <<[b |-> 1, call |-> "Filter", column |-> <<"x">>,
                 operator |-> OpEq, criteria |-> SanitizeParam(<<"a">>)],
                [NoFilter EXCEPT !.b = 1, !.call = "Not"]>>]}
    \cup
    {[rb |-> [RequestBuilderOf(<<"t">>) EXCEPT
                 !.header = HeaderSet(@, "Prefer", ReturnRepresentation)],
      qb |-> [BuilderOf(1, "query", "POST", "Insert", <<>>) EXCEPT !.json = json, !.arg = json],
      log |-> <<>>] : json \in {"p1", Unserialisable}}

\* From(table).Select("a") on a table whose path is a URL and on one whose
\* path is not
PreparedSelect ==
    {[rb |-> [RequestBuilderOf(table) EXCEPT
                 !.params = ValuesSet(@, SelectKey, Join(<<(<<"a">>)>>, ","))],
      qb |-> BuilderOf(2, "select", "GET", "Select", <<(<<"a">>)>>)] :
        table \in {<<"u">>, <<"%">>}}

InitTwice ==
    /\ clientOpts = <<>>
    /\ defaultHeaders = NewClient(clientOpts)
    /\ \E first \in PreparedOnT, second \in PreparedSelect :
          /\ rbs = <<first.rb, second.rb>>
          /\ qbs = <<first.qb, second.qb>>
          /\ log = first.log
    /\ thr = <<IdleThread, IdleThread>>
    /\ ncalls = 0
    /\ fn = NoFn

NextTwice ==
    \/ \E b \in Builders : ExecuteSend(b, "rows")
    \/ \E rb \in 1..MaxFrom : ExecuteTransportError(rb)
    \/ \E rb \in 1..MaxFrom : ExecuteReadError(rb)
    \/ \E rb \in 1..MaxFrom, resp \in SendResponses : ExecuteReceive(rb, resp)

SpecTwice == InitTwice /\ [][NextTwice]_vars

----------------------------------------------------------------------------
(* Specification of the maps of a RequestBuilder: several builders made    *)
(* from the RequestBuilder of one From call, filters and Count called      *)
(* through one of them and Execute through another.                        *)

NextMaps ==
    \/ \E rb \in 1..MaxFrom : Select(rb, <<(<<"a">>)>>)
    \/ \E rb \in 1..MaxFrom : Insert(rb, "p1")
    \/ \E rb \in 1..MaxFrom : Delete(rb)
    \/ \E b \in Builders : Eq(b, <<"x">>, <<"a">>)
    \/ \E b \in Builders : Count(b)
    \/ \E b \in Builders : ExecuteSend(b, "rows")
    \/ \E rb \in 1..MaxFrom : ExecuteReceive(rb, [status |-> 200, body |-> RowsJSON,
                                                    contentRange |-> <<>>])

SpecMaps == InitShare /\ [][NextMaps]_vars

----------------------------------------------------------------------------
(* Specification of the query string: filters on columns and values with   *)
(* and without the characters &, =, % and +, sent by Execute.              *)

QueryColumns == {<<"x">>, <<"y","=","z">>}
QueryValues ==
    {<<"a">>, <<"a","&","b">>, <<"a","=","b">>, <<"5","0","%">>, <<"a","+","b">>}

NextQuery ==
    \/ \E table \in Tables : From(table)
    \/ \E rb \in 1..MaxFrom : Delete(rb)
    \/ \E b \in Builders, column \in QueryColumns, value \in QueryValues :
          Eq(b, column, value)
    \/ \E b \in Builders : ExecuteSend(b, Nil)
    \/ \E rb \in 1..MaxFrom : ExecuteReceive(rb, [status |-> 200, body |-> RowsJSON,
                                                    contentRange |-> <<>>])

SpecQuery == Init /\ [][NextQuery]_vars

----------------------------------------------------------------------------
(* Specification of remote procedure calls: Rpc and Execute, with each     *)
(* kind of result container, against success and error responses.          *)

Functions == {<<"f">>}
RpcParams == {Nil, "p1", Unserialisable}
RpcResponses ==
    {[status |-> st, body |-> body, contentRange |-> <<>>] :
        st \in {200, 204}, body \in DecodeBodies \cup {NullJSON}}
    \cup {[status |-> 404, body |-> body, contentRange |-> <<>>] :
             body \in DecodeErrorBodies}

NextRpc ==
    \/ \E f \in Functions, params \in RpcParams : Rpc(f, params)
    \/ \E b \in Builders, result \in Containers : RpcExecuteSend(b, result)
    \/ \E rb \in 1..MaxFrom : ExecuteTransportError(rb)
    \/ \E rb \in 1..MaxFrom : ExecuteReadError(rb)
    \/ \E rb \in 1..MaxFrom, resp \in RpcResponses : RpcExecuteReceive(rb, resp)

SpecRpc == Init /\ [][NextRpc]_vars

----------------------------------------------------------------------------
(* Specification of pagination: the pagination calls of one builder, with  *)
(* negative, zero and positive sizes and offsets.                          *)

PageSizes == {-1, 0, 1, 10}
PageStarts == {-3, 0, 20}

NextPage ==
    \/ \E table \in Tables : From(table)
    \/ \E rb \in 1..MaxFrom : Select(rb, <<(<<"a">>)>>)
    \/ \E b \in Builders, size \in PageSizes, start \in PageStarts :
          LimitWithOffset(b, size, start)
    \/ \E b \in Builders, size \in PageSizes : Limit(b, size)
    \/ \E b \in Builders, from \in PageStarts, to \in PageSizes : Range(b, from, to)

SpecPage == Init /\ [][NextPage]_vars

----------------------------------------------------------------------------
(* Specification of the sanitizer: the functions applied to every string   *)
(* of at most MaxLen characters over Alphabet.                             *)

Alphabet == {"a", "b", "c", "%", "*", ",", ".", ":", "(", ")"}

Strings == UNION {[1..n -> Alphabet] : n \in 0..MaxLen}

InitSanitize ==
    /\ clientOpts = <<>>
    /\ defaultHeaders = NewClient(clientOpts)
    /\ rbs = <<>>
    /\ qbs = <<>>
    /\ thr = <<>>
    /\ log = <<>>
    /\ ncalls = 0
    /\ \E s \in Strings : fn = [NoFn EXCEPT !.in = s]

CallSanitizeParam ==
    /\ ~fn.param
    /\ fn' = [fn EXCEPT !.out = SanitizeParam(fn.in), !.param = TRUE]
    /\ UNCHANGED <<defaultHeaders, clientOpts, rbs, qbs, thr, log, ncalls>>

CallSanitizePatternParam ==
    /\ ~fn.pattern
    /\ fn' = [fn EXCEPT !.pat = SanitizePatternParam(fn.in), !.pattern = TRUE]
    /\ UNCHANGED <<defaultHeaders, clientOpts, rbs, qbs, thr, log, ncalls>>

NextSanitize == CallSanitizeParam \/ CallSanitizePatternParam

SpecSanitize == InitSanitize /\ [][NextSanitize]_vars

----------------------------------------------------------------------------
(* Properties *)

HasReserved(str) == \E i \in 1..Len(str) : str[i] \in {",", ".", ":", "(", ")"}

Quoted(str) == <<Quote>> \o str \o <<Quote>>

HasNotPrefix(value) == Len(value) >= 4 /\ SubSeq(value, 1, 4) = NotDot

StripNot(value) == IF HasNotPrefix(value) THEN SubSeq(value, 5, Len(value)) ELSE value

\* the parameter names that non-filter calls set with url.Values.Set
ReservedParams == {SelectKey, OrderKey, RangeKey, SingleRowKey}

\* the indices in log of the Filter calls made on column through a builder of rb
RECURSIVE FilterCallsOn(_, _, _)
FilterCallsOn(rb, column, n) ==
    IF n = 0 THEN <<>>
    ELSE LET e == log[n]
         IN  FilterCallsOn(rb, column, n - 1)
             \o (IF e.call = "Filter" /\ qbs[e.b].rb = rb /\ e.column = column
                 THEN <<n>> ELSE <<>>)

StoredUnder(rb, column) ==
    IF column \in DOMAIN rbs[rb].params THEN rbs[rb].params[column] ELSE <<>>

FilterColumns(rb) ==
    (DOMAIN rbs[rb].params
        \cup {log[i].column : i \in {j \in 1..Len(log) : log[j].call = "Filter"}})
    \ ReservedParams

\* whether the call log[i] directly follows a Not call on the same builder
NegatedAt(i) ==
    LET before == {j \in 1..(i - 1) : log[j].b = log[i].b}
    IN  /\ before # {}
        /\ log[CHOOSE j \in before : \A k \in before : k <= j].call = "Not"

\* C1: the values stored under a column (other than a parameter name that a
\* non-filter call sets) are exactly the operator.criteria encodings of the
\* Filter calls made on that column, one per call and in call order, each
\* with at most a "not." in front.
C1_FiltersAccumulateInOrder ==
    \A rb \in 1..Len(rbs) : \A column \in FilterColumns(rb) :
        LET calls == FilterCallsOn(rb, column, Len(log))
            stored == StoredUnder(rb, column)
        IN  /\ Len(stored) = Len(calls)
            /\ \A k \in 1..Len(calls) :
                  StripNot(stored[k])
                      = log[calls[k]].operator \o <<".">> \o log[calls[k]].criteria

\* Lte("x","a").Gte("x","b") on a builder without other parameters encodes
\* as x=lte.a&x=gte.b
C1_Witness ==
    \E rb \in 1..Len(rbs) :
        /\ Len(log) = 2
        /\ log[1] = [b |-> 1, call |-> "Filter", column |-> <<"x">>,
                     operator |-> OpLte, criteria |-> <<"a">>]
        /\ log[2] = [b |-> 1, call |-> "Filter", column |-> <<"x">>,
                     operator |-> OpGte, criteria |-> <<"b">>]
        /\ Encode(rbs[rb].params)
              = <<"x","=","l","t","e",".","a","&","x","=","g","t","e",".","b">>

\* C2: a stored filter value starts with "not." exactly when Not was the
\* last call on its builder before the filter call, and a builder's negation
\* flag is set exactly when Not is the last Not or filter call made on it.
C2_NotNegatesOnlyNextFilter ==
    /\ \A rb \in 1..Len(rbs) : \A column \in FilterColumns(rb) :
          LET calls == FilterCallsOn(rb, column, Len(log))
              stored == StoredUnder(rb, column)
          IN  \A k \in 1..Len(calls) :
                  k <= Len(stored) => (HasNotPrefix(stored[k]) <=> NegatedAt(calls[k]))
    /\ \A b \in 1..Len(qbs) :
          LET mine == {j \in 1..Len(log) : log[j].b = b}
          IN  qbs[b].negateNext
                  <=> /\ mine # {}
                      /\ log[CHOOSE j \in mine : \A k \in mine : k <= j].call = "Not"

\* Not().Eq(col,v) followed by a second filter on the same column: the first
\* value is negated, the second is not
C2_Witness ==
    \E rb \in 1..Len(rbs) : \E column \in Columns :
        /\ Len(log) = 3
        /\ log[1].call = "Not"
        /\ log[2].call = "Filter" /\ log[2].operator = OpEq
        /\ log[3].call = "Filter"
        /\ Len(StoredUnder(rb, column)) = 2
        /\ StoredUnder(rb, column)[1] = NotDot \o OpEq \o <<".">> \o log[2].criteria
        /\ ~HasNotPrefix(StoredUnder(rb, column)[2])

\* C3: SanitizeParam(v) is v in double quotes when v holds one of , . : ( )
\* and v itself when it holds none.
C3_SanitizeParamQuotesReserved ==
    fn.param =>
        /\ HasReserved(fn.in) => fn.out = Quoted(fn.in)
        /\ ~HasReserved(fn.in) => fn.out = fn.in

C3_Witness ==
    fn.param /\ fn.in = <<"a", ",", "b">> /\ fn.out = <<Quote, "a", ",", "b", Quote>>

\* C4: SanitizePatternParam(p) is SanitizeParam of p with every % replaced
\* by *, so a pattern without reserved character comes back unquoted.
C4_SanitizePatternParamStarsThenQuotes ==
    fn.pattern =>
        LET starred == [i \in 1..Len(fn.in) |-> IF fn.in[i] = "%" THEN "*" ELSE fn.in[i]]
        IN  /\ fn.pat = SanitizeParam(starred)
            /\ ~HasReserved(fn.in) => fn.pat = starred

C4_Witness ==
    fn.pattern /\ fn.in = <<"a", "b", "c", "%">> /\ fn.pat = <<"a", "b", "c", "*">>

\* C5: a Filter call on a column that holds a reserved character stores its
\* operator.criteria value under the double-quoted column name.
C5_FilterSanitizesColumn ==
    \A i \in 1..Len(log) :
        (log[i].call = "Filter" /\ HasReserved(log[i].column)) =>
            LET params == rbs[qbs[log[i].b].rb].params
                key == Quoted(log[i].column)
            IN  /\ key \in DOMAIN params
                /\ \E k \in 1..Len(params[key]) :
                      StripNot(params[key][k])
                          = log[i].operator \o <<".">> \o log[i].criteria

\* C6: the builder an entry point returns has the method and the payload of
\* its operation: Insert and Upsert POST with the payload given, Update
\* PATCH with the payload given, Delete DELETE and Select GET with none.
C6_EntryPointMethodAndPayload ==
    [][Len(qbs') = Len(qbs) + 1 =>
        LET nb == qbs'[Len(qbs')]
        IN  /\ nb.entry = "Insert" => nb.httpMethod = "POST" /\ nb.json = nb.arg
            /\ nb.entry = "Upsert" => nb.httpMethod = "POST" /\ nb.json = nb.arg
            /\ nb.entry = "Update" => nb.httpMethod = "PATCH" /\ nb.json = nb.arg
            /\ nb.entry = "Delete" => nb.httpMethod = "DELETE" /\ nb.json = Nil
            /\ nb.entry = "Select" => nb.httpMethod = "GET" /\ nb.json = Nil
            /\ nb.entry \in {"Insert", "Upsert", "Update", "Delete", "Select"}]_vars

C6_Witness ==
    \E b1, b2 \in 1..Len(qbs) :
        /\ qbs[b1].entry = "Upsert" /\ qbs[b1].httpMethod = "POST" /\ qbs[b1].json = "p2"
        /\ qbs[b2].entry = "Update" /\ qbs[b2].httpMethod = "PATCH" /\ qbs[b2].json = "p1"

\* C7: after Insert or Update the Prefer header is return=representation,
\* after Upsert it is return=representation,resolution=merge-duplicates;
\* Delete and Select leave a RequestBuilder without Prefer header without one.
C7_EntryPointPreferHeader ==
    [][Len(qbs') = Len(qbs) + 1 =>
        LET nb == qbs'[Len(qbs')]
            before == rbs[nb.rb].header
            after == rbs'[nb.rb].header
        IN  /\ nb.entry \in {"Insert", "Update"} =>
                  "Prefer" \in DOMAIN after /\ after["Prefer"] = <<ReturnRepresentation>>
            /\ nb.entry = "Upsert" =>
                  "Prefer" \in DOMAIN after /\ after["Prefer"] = <<ReturnRepresentationMerge>>
            /\ nb.entry \in {"Delete", "Select"} =>
                  ("Prefer" \notin DOMAIN before => "Prefer" \notin DOMAIN after)]_vars

C7_Witness ==
    \E b1, b2 \in 1..Len(qbs) :
        /\ qbs[b1].entry = "Upsert"
        /\ rbs[qbs[b1].rb].header["Prefer"] = <<ReturnRepresentationMerge>>
        /\ qbs[b2].entry = "Delete"
        /\ qbs[b2].rb # qbs[b1].rb
        /\ "Prefer" \notin DOMAIN rbs[qbs[b2].rb].header

\* the column names with a comma between each two, built from the right
RECURSIVE CommaSeparated(_)
CommaSeparated(columns) ==
    IF columns = <<>> THEN <<>>
    ELSE IF Len(columns) = 1 THEN columns[1]
    ELSE CommaSeparated(SubSeq(columns, 1, Len(columns) - 1))
         \o <<",">> \o columns[Len(columns)]

\* C8: after Select(c1,...,cn) the select parameter of the RequestBuilder
\* holds one value, the column names joined by commas in argument order,
\* whatever it held before.
C8_SelectSetsJoinedColumns ==
    [][Len(qbs') = Len(qbs) + 1 =>
        LET nb == qbs'[Len(qbs')]
        IN  nb.entry = "Select" =>
                /\ SelectKey \in DOMAIN rbs'[nb.rb].params
                /\ rbs'[nb.rb].params[SelectKey] = <<CommaSeparated(nb.cols)>>]_vars

\* Select("a") then Select("a","b") on one RequestBuilder leaves select=a,b
C8_Witness ==
    \E b1, b2 \in 1..Len(qbs) :
        /\ b1 < b2
        /\ qbs[b1].rb = qbs[b2].rb
        /\ qbs[b1].entry = "Select" /\ qbs[b1].cols = <<(<<"a">>)>>
        /\ qbs[b2].entry = "Select" /\ qbs[b2].cols = <<(<<"a">>), (<<"b">>)>>
        /\ rbs[qbs[b2].rb].params[SelectKey] = <<(<<"a", ",", "b">>)>>

\* C9: the call that turns count mode on leaves the method HEAD and the
\* header Prefer: count=exact and does not change the query parameters, and
\* no call turns count mode off or changes the method of a counting builder.
C9_CountSetsHeadAndStays ==
    [][\A b \in 1..Len(qbs) :
        /\ qbs[b].isCount => qbs'[b].isCount /\ qbs'[b].httpMethod = "HEAD"
        /\ (~qbs[b].isCount /\ qbs'[b].isCount) =>
              /\ qbs'[b].httpMethod = "HEAD"
              /\ "Prefer" \in DOMAIN rbs'[qbs[b].rb].header
              /\ rbs'[qbs[b].rb].header["Prefer"] = <<CountExact>>
              /\ rbs'[qbs[b].rb].params = rbs[qbs[b].rb].params]_vars

\* a counting builder with a filter, after a further call on it
C9_Witness ==
    \E b \in 1..Len(qbs) :
        /\ qbs[b].isCount /\ qbs[b].httpMethod = "HEAD"
        /\ rbs[qbs[b].rb].header["Prefer"] = <<CountExact>>
        /\ <<"x">> \in DOMAIN rbs[qbs[b].rb].params
        /\ "Accept" \in DOMAIN rbs[qbs[b].rb].header

\* an Execute call of the goroutine of rb that has returned from a response
Answered(rb) == thr[rb].pc = "idle" /\ thr[rb].resp # NoResponse

Success(resp) == resp.status \in 200..299

\* the text after the only / of a Content-Range value
TotalOf(contentRange) ==
    LET i == CHOOSE j \in 1..Len(contentRange) : contentRange[j] = "/"
    IN  SubSeq(contentRange, i + 1, Len(contentRange))

OneSlash(contentRange) ==
    Cardinality({j \in 1..Len(contentRange) : contentRange[j] = "/"}) = 1

\* C10 as stated: in count mode, on every success response with
\* Content-Range 0-9/42, Execute leaves 42 in an int result container.
C10_CountDecodesTotal ==
    \A rb \in 1..Len(rbs) :
        (/\ Answered(rb)
         /\ thr[rb].count
         /\ thr[rb].r = "int"
         /\ Success(thr[rb].resp)
         /\ thr[rb].resp.contentRange = <<"0", "-", "9", "/", "4", "2">>)
        => thr[rb].out.written /\ thr[rb].out.num = 42

\* C10 amended: in count mode, on every success response other than 204
\* whose Content-Range holds one /, Execute with a result container returns
\* what decoding the text after the / into the container returns, whatever
\* the body is; with 0-9/42 and an int container that is 42 and no error.
C10_CountDecodesTotalUnless204 ==
    \A rb \in 1..Len(rbs) :
        (/\ Answered(rb)
         /\ thr[rb].count
         /\ thr[rb].r # Nil
         /\ Success(thr[rb].resp)
         /\ thr[rb].resp.status # 204
         /\ OneSlash(thr[rb].resp.contentRange))
        => /\ [out |-> thr[rb].out, err |-> thr[rb].err]
                  = Unmarshal(TotalOf(thr[rb].resp.contentRange), thr[rb].r, NoOut)
           /\ (/\ thr[rb].r = "int"
               /\ thr[rb].resp.contentRange = <<"0", "-", "9", "/", "4", "2">>)
              => /\ thr[rb].out = [written |-> TRUE, num |-> 42, doc |-> <<>>]
                 /\ thr[rb].err = NoErr

\* count mode, status 200, Content-Range 0-9/42, a body that is the number 7
C10_Witness ==
    \E rb \in 1..Len(rbs) :
        /\ Answered(rb)
        /\ thr[rb].count
        /\ thr[rb].r = "int"
        /\ thr[rb].resp = [status |-> 200, body |-> <<"7">>,
                           contentRange |-> <<"0", "-", "9", "/", "4", "2">>]
        /\ thr[rb].out.num = 42

\* the value of the last member of the object body whose key is name, the
\* empty string when it has none
BodyField(body, name) ==
    LET fields == ParseObject(body).fields
        at == {i \in 1..Len(fields) : fields[i][1] = name}
    IN  IF at = {} THEN <<>>
        ELSE fields[CHOOSE i \in at : \A j \in at : j <= i][2]

SignedValue(str) ==
    IF str # <<>> /\ str[1] = "-" THEN 0 - ParseNat(Tail(str)) ELSE ParseNat(str)

IsNumeral(str) ==
    LET digits == IF str # <<>> /\ str[1] = "-" THEN Tail(str) ELSE str
    IN  IsJSONNat(digits)

\* value reads as <first>-<last>, two decimal numerals with a - between
ReadsAsRange(value, first, last) ==
    \E i \in 2..(Len(value) - 1) :
        /\ value[i] = "-"
        /\ IsNumeral(SubSeq(value, 1, i - 1))
        /\ IsNumeral(SubSeq(value, i + 1, Len(value)))
        /\ SignedValue(SubSeq(value, 1, i - 1)) = first
        /\ SignedValue(SubSeq(value, i + 1, Len(value))) = last

\* C12: after LimitWithOffset(size, start), and after Limit(size) with start
\* 0, the headers of the RequestBuilder hold the one value items for
\* Range-Unit and one value for Range, which reads <start>-<start+size-1>
\* for the arguments of the last such call; for (10, 20) it is 20-29.
C12_LimitSetsRangeHeaders ==
    \A rb \in 1..Len(rbs) :
        thr[rb].limit.called =>
            LET h == rbs[rb].header
                size == thr[rb].limit.size
                start == thr[rb].limit.start
            IN  /\ "Range-Unit" \in DOMAIN h /\ h["Range-Unit"] = <<Items>>
                /\ "Range" \in DOMAIN h /\ Len(h["Range"]) = 1
                /\ ReadsAsRange(h["Range"][1], start, start + size - 1)
                /\ (size = 10 /\ start = 20) => h["Range"] = <<(<<"2","0","-","2","9">>)>>

\* LimitWithOffset(10, 20) made after another pagination call
C12_Witness ==
    \E rb \in 1..Len(rbs) :
        /\ thr[rb].limit = [called |-> TRUE, size |-> 10, start |-> 20]
        /\ rbs[rb].header["Range"] = <<(<<"2","0","-","2","9">>)>>
        /\ rbs[rb].header["Range-Unit"] = <<Items>>
        /\ ncalls = 5

\* the Filter calls of log made through a builder of rb on a column that is
\* not the name of a parameter a non-filter call sets
FilterCallsOf(rb) ==
    {i \in 1..Len(log) :
        /\ log[i].call = "Filter"
        /\ qbs[log[i].b].rb = rb
        /\ log[i].column \notin ReservedParams}

\* the value of the Filter call log[i] is among those stored under its column
FilterPresent(rb, i) ==
    \E k \in 1..Len(StoredUnder(rb, log[i].column)) :
        StripNot(StoredUnder(rb, log[i].column)[k])
            = log[i].operator \o <<".">> \o log[i].criteria

C14_RangeAddsNoQueryParameter ==
    \A rb \in 1..Len(rbs) :
        /\ DOMAIN rbs[rb].params \subseteq {SelectKey}
        /\ RangeKey \notin DOMAIN rbs[rb].params

\* C15: the request an Execute call sends has, for every key of the
\* builder's headers, the builder's value, and for every other key of the
\* Client's default headers, the default value, and no other key; the
\* Client's default headers are left as they were.
C15_RequestHeadersOverlay ==
    [][\A rb \in 1..Len(rbs) :
        thr'[rb].sends = thr[rb].sends + 1 =>
            LET sent == thr'[rb].req.header
                own == rbs[rb].header
            IN  /\ DOMAIN sent = DOMAIN defaultHeaders \cup DOMAIN own
                /\ \A k \in DOMAIN own : sent[k] = own[k]
                /\ \A k \in DOMAIN defaultHeaders \ DOMAIN own :
                      sent[k] = defaultHeaders[k]
                /\ defaultHeaders' = defaultHeaders]_vars

\* the request of Select().Single(): Accept is the builder's, Content-Type
\* the default
C15_Witness ==
    \E rb \in 1..Len(rbs) :
        /\ thr[rb].pc = "waiting"
        /\ rbs[rb].header = HeaderSet(EmptyMap, "Accept", ObjectJson)
        /\ thr[rb].req.header["Accept"] = <<ObjectJson>>
        /\ thr[rb].req.header["Content-Type"] = <<ApplicationJson>>
        /\ thr[rb].req.header["Accept-Profile"] = <<Public>>

\* C16: the default headers of a Client are Accept and Content-Type
\* application/json and Accept-Profile and Content-Profile public when it
\* was built without WithSchema, and the schema of the last WithSchema
\* option when it was built with one; it has no other default header.
C16_ClientDefaultHeaders ==
    /\ DOMAIN defaultHeaders = {"Accept", "Content-Type", "Accept-Profile", "Content-Profile"}
    /\ defaultHeaders["Accept"] = <<ApplicationJson>>
    /\ defaultHeaders["Content-Type"] = <<ApplicationJson>>
    /\ LET schema == IF clientOpts = <<>> THEN Public ELSE clientOpts[Len(clientOpts)]
       IN  /\ defaultHeaders["Accept-Profile"] = <<schema>>
           /\ defaultHeaders["Content-Profile"] = <<schema>>

\* a Client built with WithSchema("private") that has sent a request
C16_Witness ==
    /\ clientOpts = <<Private>>
    /\ defaultHeaders["Content-Profile"] = <<Private>>
    /\ \E rb \in 1..Len(rbs) :
          /\ thr[rb].pc = "waiting"
          /\ thr[rb].req.header["Accept-Profile"] = <<Private>>
          /\ thr[rb].req.header["Content-Profile"] = <<Private>>

\* C17: the request an Execute call sends for a builder whose payload is nil
\* has an empty body.
C17_NilPayloadSendsNoBody ==
    \A rb \in 1..Len(rbs) :
        (thr[rb].req # NoRequest /\ qbs[thr[rb].b].json = Nil)
        => thr[rb].req.body = <<>>

\* C18 as stated: for every column name, the value of every Filter call
\* made so far is stored under its column.
C18_EveryFilterStays ==
    \A i \in 1..Len(log) :
        log[i].call = "Filter" => FilterPresent(qbs[log[i].b].rb, i)

\* whether the sequence before is the beginning of the sequence after
IsPrefix(before, after) ==
    /\ Len(before) <= Len(after)
    /\ \A k \in 1..Len(before) : after[k] = before[k]

\* C18 amended: no call removes or alters a value stored under a column
\* that is not named select, order, range or single-row: after every call
\* the values the column held are the first values it holds, as they were.
C18_FiltersAccumulateMonotonically ==
    [][\A rb \in 1..Len(rbs) :
        \A column \in DOMAIN rbs[rb].params \ ReservedParams :
            /\ column \in DOMAIN rbs'[rb].params
            /\ IsPrefix(rbs[rb].params[column], rbs'[rb].params[column])]_vars

\* a filter on x made first on a builder, followed by OrderBy and Count
C18_Witness ==
    \E b \in 1..Len(qbs) :
        /\ Len(log) = 1 /\ log[1].call = "Filter" /\ log[1].b = b /\ ncalls = 5
        /\ qbs[b].isCount
        /\ OrderKey \in DOMAIN rbs[qbs[b].rb].params
        /\ StoredUnder(qbs[b].rb, <<"x">>) = <<(<<"e","q",".","a">>)>>

\* an Execute call of the goroutine of rb that has returned
Returned(rb) == thr[rb].pc = "idle" /\ thr[rb].execs > 0

\* C19: when an Execute call has returned an error, the result container
\* is as it was before the call.
C19_ErrorLeavesContainerUntouched ==
    \A rb \in 1..Len(rbs) :
        (Returned(rb) /\ thr[rb].err # NoErr) => thr[rb].out = NoOut

\* whether str holds a % that two hexadecimal digits do not follow
BadPercent(str) ==
    \E i \in 1..Len(str) :
        /\ str[i] = "%"
        /\ ~(i + 2 <= Len(str) /\ IsHex(str[i + 1]) /\ IsHex(str[i + 2]))

\* C20: a step sends a request only as part of an Execute call, and an
\* Execute call sends at most one; a call made on a builder whose payload
\* cannot be serialized or whose path is not a URL sends none and returns
\* with that error; the return of session.Do, with a response or an error,
\* is followed by no further request of the same call.
C20_AtMostOneCallPerExecute ==
    [][\A rb \in 1..Len(rbs) :
        LET calls == thr'[rb].execs - thr[rb].execs
            sent == thr'[rb].sends - thr[rb].sends
            b == thr'[rb].b
        IN  /\ calls \in {0, 1}
            /\ sent \in {0, 1}
            /\ sent <= calls
            /\ (thr[rb].pc = "waiting" /\ thr'[rb] # thr[rb]) =>
                  sent = 0 /\ calls = 0 /\ thr'[rb].pc = "idle"
            /\ (calls = 1 /\ qbs[b].json = Unserialisable) =>
                  sent = 0 /\ thr'[rb].pc = "idle" /\ thr'[rb].err.kind = "marshal"
            /\ (calls = 1 /\ qbs[b].json # Unserialisable /\ BadPercent(rbs[rb].path)) =>
                  sent = 0 /\ thr'[rb].pc = "idle" /\ thr'[rb].err.kind = "construct"]_vars

\* two Execute calls of one goroutine: the first sent one request, the
\* second, on a payload that cannot be serialized, sent none
C20_Witness ==
    \E rb \in 1..Len(rbs) :
        /\ thr[rb].execs = 2 /\ thr[rb].sends = 1 /\ thr[rb].pc = "idle"
        /\ thr[rb].req # NoRequest
        /\ thr[rb].err.kind = "marshal"

\* the builders produced from the RequestBuilder rb
BuildersOf(rb) == {b \in 1..Len(qbs) : qbs[b].rb = rb}

\* the query text of n filters x = eq.a that follow another parameter
RECURSIVE FilterText(_)
FilterText(n) ==
    IF n = 0 THEN <<>> ELSE <<"&","x","=","e","q",".","a">> \o FilterText(n - 1)

\* the request of a builder built and executed alone on a Client without
\* options: its method and headers by the entry point that made it, its
\* path by its table, its query by its Select columns and its filters
AloneRequest(b) ==
    LET filters == {i \in 1..Len(log) : log[i].b = b /\ log[i].call = "Filter"}
        defaults == [k \in {"Accept", "Content-Type", "Accept-Profile", "Content-Profile"} |->
                        IF k \in {"Accept", "Content-Type"}
                        THEN <<ApplicationJson>> ELSE <<Public>>]
    IN  IF qbs[b].entry = "Select"
        THEN [method |-> "GET",
              url |-> BaseURL \o Tail(rbs[qbs[b].rb].path),
              query |-> <<"s","e","l","e","c","t","=","a">>
                        \o FilterText(Cardinality(filters)),
              header |-> defaults,
              body |-> NullJSON]
        ELSE [method |-> "POST",
              url |-> BaseURL \o Tail(rbs[qbs[b].rb].path),
              query |-> <<>>,
              header |-> [k \in DOMAIN defaults \cup {"Prefer"} |->
                             IF k = "Prefer" THEN <<ReturnRepresentation>> ELSE defaults[k]],
              body |-> ObjectJSON]

\* C21: the request a goroutine sends for the one builder of its own
\* RequestBuilder is the request of that builder built and executed alone,
\* whatever the other goroutine has done, and the Client's default headers
\* stay what NewClient made them.
C21_SharedClientRequestsIndependent ==
    /\ defaultHeaders = NewClient(<<>>)
    /\ \A rb \in 1..Len(rbs) :
          (/\ thr[rb].pc = "waiting"
           /\ BuildersOf(rb) = {thr[rb].b})
          => thr[rb].req = AloneRequest(thr[rb].b)

\* both goroutines inside session.Do at once, one with a filtered Select on
\* t, one with an Insert on u
C21_Witness ==
    /\ Len(rbs) = 2 /\ Len(qbs) = 2
    /\ thr[1].pc = "waiting" /\ thr[2].pc = "waiting"
    /\ qbs[thr[1].b].rb = 1 /\ qbs[thr[2].b].rb = 2
    /\ thr[1].req.method = "GET"
    /\ thr[1].req.query = <<"s","e","l","e","c","t","=","a","&","x","=","e","q",".","a">>
    /\ thr[2].req.method = "POST"
    /\ "Prefer" \in DOMAIN thr[2].req.header
    /\ "Prefer" \notin DOMAIN thr[1].req.header
    /\ thr[1].req.url # thr[2].req.url

\* the number of / in a Content-Range value
Slashes(contentRange) ==
    Cardinality({j \in 1..Len(contentRange) : contentRange[j] = "/"})

\* C22 as stated: in count mode, on every success response whose
\* Content-Range does not hold exactly one /, Execute returns an error.
C22_MalformedContentRangeIsError ==
    \A rb \in 1..Len(rbs) :
        (/\ Answered(rb)
         /\ thr[rb].count
         /\ Success(thr[rb].resp)
         /\ Slashes(thr[rb].resp.contentRange) # 1)
        => thr[rb].err # NoErr

\* C22 amended: in count mode, on every success response other than 204
\* whose Content-Range does not hold exactly one /, Execute called with a
\* result container returns the content range error and leaves the
\* container as it was; on a 204 response, or without a result container,
\* it returns no error whatever the header is.
C22_MalformedContentRangeIsErrorUnless204 ==
    \A rb \in 1..Len(rbs) :
        (/\ Answered(rb)
         /\ thr[rb].count
         /\ Success(thr[rb].resp)
         /\ Slashes(thr[rb].resp.contentRange) # 1)
        => IF thr[rb].resp.status # 204 /\ thr[rb].r # Nil
           THEN thr[rb].err.kind = "contentRange" /\ thr[rb].out = NoOut
           ELSE thr[rb].err = NoErr

\* count mode, status 200, an int container and a Content-Range with two /
C22_Witness ==
    \E rb \in 1..Len(rbs) :
        /\ Answered(rb)
        /\ thr[rb].count
        /\ thr[rb].r = "int"
        /\ thr[rb].resp.status = 200
        /\ thr[rb].resp.contentRange = <<"1","/","2","/","3">>
        /\ thr[rb].err.kind = "contentRange"

\* C23: on a response with a status outside 200-299 Execute never returns
\* the nil error; it returns a RequestError when the body is a JSON object
\* or null, the syntax error when the body is not JSON (x, a lone brace, no
\* bytes at all) and the type error when it is JSON of another kind (an
\* array, a number); the result container is left as it was.
C23_UnparsableErrorBodyGivesParseError ==
    \A rb \in 1..Len(rbs) :
        (Answered(rb) /\ ~Success(thr[rb].resp)) =>
            LET e == thr[rb].err
                body == thr[rb].resp.body
            IN  /\ e # NoErr
                /\ e.kind \in {"RequestError", "syntax", "type"}
                /\ body \in {ObjectJSON, NullJSON} =>
                      e = [NoErr EXCEPT !.kind = "RequestError",
                                        !.status = thr[rb].resp.status]
                /\ body \in {<<"x">>, <<"{">>, <<>>} => e = [NoErr EXCEPT !.kind = "syntax"]
                /\ body \in {RowsJSON, <<"7">>} => e = [NoErr EXCEPT !.kind = "type"]
                /\ thr[rb].out = NoOut

\* status 500 with a body of no bytes: the error is the syntax error
C23_Witness ==
    \E rb \in 1..Len(rbs) :
        /\ Answered(rb)
        /\ thr[rb].resp.status = 500
        /\ thr[rb].resp.body = <<>>
        /\ thr[rb].err.kind = "syntax"

\* C24: on a response with status 204 Execute returns the nil error and
\* leaves the result container as it was, whether the builder counts or
\* not and whatever the body and the Content-Range header are.
C24_NoContentLeavesContainer ==
    \A rb \in 1..Len(rbs) :
        (Answered(rb) /\ thr[rb].resp.status = 204)
        => thr[rb].err = NoErr /\ thr[rb].out = NoOut

\* a counting builder executed with an int container, answered with 204, a
\* body 7 and the Content-Range 0-9/42
C24_Witness ==
    \E rb \in 1..Len(rbs) :
        /\ Answered(rb)
        /\ thr[rb].count
        /\ thr[rb].r = "int"
        /\ thr[rb].resp = [status |-> 204, body |-> <<"7">>,
                           contentRange |-> <<"0","-","9","/","4","2">>]
        /\ thr[rb].out = NoOut

\* the values of a list, each in double quotes when it holds a reserved
\* character, with a comma between each two
QuotedList(values) ==
    CommaSeparated([i \in 1..Len(values) |->
                       IF HasReserved(values[i]) THEN Quoted(values[i]) ELSE values[i]])

\* the step adds to the parameters of the builder b one value under column,
\* after those it held: operator.<open><list><close>, with not. in front
\* when Not was called last, and changes no other parameter
AppendsList(b, column, operator, open, values, close) ==
    LET rb == qbs[b].rb
        expected == (IF qbs[b].negateNext THEN NotDot ELSE <<>>)
                    \o operator \o <<".", open>> \o QuotedList(values) \o <<close>>
    IN  /\ DOMAIN rbs'[rb].params = DOMAIN rbs[rb].params \cup {column}
        /\ rbs'[rb].params[column] = StoredUnder(rb, column) \o <<expected>>
        /\ \A k \in DOMAIN rbs[rb].params \ {column} :
              rbs'[rb].params[k] = rbs[rb].params[k]

\* C25: a call of In, Cs, Cd, Ov or Ad appends one parameter value under
\* its column, whose criteria is the values, each quoted once when it holds
\* a reserved character, joined by commas in argument order, in (...) for
\* In and in {...} for Cs, Cd, Ov and Ad; In("c", ["a","b.c"]) not after
\* Not appends in.(a,"b.c").
C25_ListOperatorsAppendOneParameter ==
    [][\A b \in Builders : \A values \in ValueLists :
        /\ In(b, <<"c">>, values) => AppendsList(b, <<"c">>, <<"i","n">>, "(", values, ")")
        /\ Cs(b, <<"c">>, values) => AppendsList(b, <<"c">>, <<"c","s">>, "{", values, "}")
        /\ Cd(b, <<"c">>, values) => AppendsList(b, <<"c">>, <<"c","d">>, "{", values, "}")
        /\ Ov(b, <<"c">>, values) => AppendsList(b, <<"c">>, <<"o","v">>, "{", values, "}")
        /\ Ad(b, <<"c">>, values) => AppendsList(b, <<"c">>, <<"a","d">>, "{", values, "}")
        /\ (In(b, <<"c">>, <<(<<"a">>), (<<"b",".","c">>)>>) /\ ~qbs[b].negateNext) =>
              rbs'[qbs[b].rb].params[<<"c">>][Len(rbs'[qbs[b].rb].params[<<"c">>])]
                  = <<"i","n",".","(","a",",","\"","b",".","c","\"",")">>]_vars

\* In("c", ["a","b.c"]) followed by Ad("c", ["a","b.c"]) on one builder
C25_Witness ==
    \E rb \in 1..Len(rbs) :
        /\ Len(log) = 2
        /\ StoredUnder(rb, <<"c">>)
              = <<(<<"i","n",".","(","a",",","\"","b",".","c","\"",")">>),
                  (<<"a","d",".","{","a",",","\"","b",".","c","\"","}">>)>>

\* the query parts of the Filter calls x = eq.a among the first n calls made
\* through the builder b, each with not. in front when the call before it
\* through b was Not
RECURSIVE FilterPartsOf(_, _)
FilterPartsOf(b, n) ==
    IF n = 0 THEN <<>>
    ELSE FilterPartsOf(b, n - 1)
         \o (IF log[n].b = b /\ log[n].call = "Filter"
             THEN <<(<<"x","=">> \o (IF NegatedAt(n) THEN <<"n","o","t",".">> ELSE <<>>)
                     \o <<"e","q",".","a">>)>>
             ELSE <<>>)

RECURSIVE AmpersandSeparated(_)
AmpersandSeparated(parts) ==
    IF parts = <<>> THEN <<>>
    ELSE IF Len(parts) = 1 THEN parts[1]
    ELSE parts[1] \o <<"&">> \o AmpersandSeparated(Tail(parts))

\* the request of the builder b by its entry point, its Count call and its
\* Filter calls alone: no Not call that no Filter call follows has a part
\* in it
RequestWithoutTrailingNot(b) ==
    LET defaults == [k \in {"Accept", "Content-Type", "Accept-Profile", "Content-Profile"} |->
                        IF k \in {"Accept", "Content-Type"}
                        THEN <<ApplicationJson>> ELSE <<Public>>]
    IN  [method |-> IF qbs[b].isCount THEN "HEAD"
                    ELSE IF qbs[b].entry = "Select" THEN "GET" ELSE "DELETE",
         url |-> BaseURL \o Tail(rbs[qbs[b].rb].path),
         query |-> AmpersandSeparated(
                       (IF qbs[b].entry = "Select"
                        THEN <<(<<"s","e","l","e","c","t","=","a">>)>> ELSE <<>>)
                       \o FilterPartsOf(b, Len(log))),
         header |-> IF qbs[b].isCount
                    THEN [k \in DOMAIN defaults \cup {"Prefer"} |->
                             IF k = "Prefer" THEN <<CountExact>> ELSE defaults[k]]
                    ELSE defaults,
         body |-> NullJSON]

\* a step is a call of Not through the builder b
IsNotCall(b) ==
    log' = Append(log, [b |-> b, call |-> "Not", column |-> <<>>,
                        operator |-> <<>>, criteria |-> <<>>])

\* C26: a call of Not changes the negation flag of its builder and nothing
\* else of any builder, RequestBuilder or goroutine; and the request
\* Execute sends holds one not. in front of each filter that one or more
\* Not calls came before, and is the request of the builder without the Not
\* calls that no filter followed.
C26_NotChangesOnlyNegation ==
    /\ [][\A b \in 1..Len(qbs) :
            IsNotCall(b) =>
                /\ rbs' = rbs /\ thr' = thr /\ defaultHeaders' = defaultHeaders
                /\ qbs' = [qbs EXCEPT ![b].negateNext = TRUE]]_vars
    /\ [](\A rb \in 1..Len(rbs) :
            thr[rb].pc = "waiting" => thr[rb].req = RequestWithoutTrailingNot(thr[rb].b))

\* Not, Not, Eq, Not, Execute on the Delete builder: the request sent holds
\* one not. and the negation flag is set
C26_Witness ==
    /\ Len(log) = 4
    /\ log[1].call = "Not" /\ log[2].call = "Not"
    /\ log[3].call = "Filter" /\ log[4].call = "Not"
    /\ \A i \in 1..4 : log[i].b = 1
    /\ thr[1].pc = "waiting"
    /\ qbs[1].negateNext
    /\ thr[1].req.query = <<"x","=","n","o","t",".","e","q",".","a">>

\* C27: no step of Execute, from its call to its return, with or without an
\* error, changes a builder (params, headers, path, method, payload, count
\* mode, negation flag) or the Client's default headers; and an Execute
\* called again on the builder of the last Execute sends the request that
\* one sent, or fails to build it with the error that one failed with.
C27_ExecuteLeavesBuilderUnchanged ==
    [][\A rb \in 1..Len(rbs) :
        thr'[rb] # thr[rb] =>
            /\ rbs' = rbs /\ qbs' = qbs /\ defaultHeaders' = defaultHeaders
            /\ (/\ thr[rb].sends >= 1
                /\ thr'[rb].sends = thr[rb].sends + 1
                /\ thr'[rb].b = thr[rb].b) => thr'[rb].req = thr[rb].req
            /\ (/\ thr[rb].execs >= 1
                /\ thr'[rb].execs = thr[rb].execs + 1
                /\ thr'[rb].sends = thr[rb].sends
                /\ thr'[rb].b = thr[rb].b)
               => (thr[rb].sends = 0 /\ thr'[rb].err = thr[rb].err)]_vars

\* the third Execute on the Delete builder, after one that returned an
\* error and one that returned none, and the second on the Select builder
\* whose request cannot be built
C27_Witness ==
    /\ thr[1].pc = "waiting" /\ thr[1].sends = 3
    /\ qbs[thr[1].b].negateNext
    /\ thr[1].req.query = <<"x","=","e","q",".","a">>
    /\ thr[2].execs = 2 /\ thr[2].sends = 0
    /\ thr[2].err.kind = "construct"

\* the parts of a query between its & characters
QueryParts(query) == Split(query, "&")

\* C28: the request a builder sends holds every filter called through any
\* builder of its RequestBuilder, the select value when one of them was
\* made by Select, and the Prefer header when one of them was made by
\* Insert or had Count called: return=representation when none had Count
\* called.
C28_BuildersShareMaps ==
    \A rb \in 1..Len(rbs) :
        thr[rb].pc = "waiting" =>
            LET req == thr[rb].req
                parts == QueryParts(req.query)
                bs == BuildersOf(rb)
            IN  /\ \A i \in 1..Len(log) :
                      (log[i].call = "Filter" /\ log[i].b \in bs) =>
                          \E p \in 1..Len(parts) :
                              parts[p] = log[i].column \o <<"=">> \o log[i].operator
                                             \o <<".">> \o log[i].criteria
                /\ (\E b \in bs : qbs[b].entry = "Select") =>
                      \E p \in 1..Len(parts) : parts[p] = <<"s","e","l","e","c","t","=","a">>
                /\ (\E b \in bs : qbs[b].entry = "Insert" \/ qbs[b].isCount) =>
                      "Prefer" \in DOMAIN req.header
                /\ ((\E b \in bs : qbs[b].entry = "Insert") /\ (\A b \in bs : ~qbs[b].isCount)) =>
                      req.header["Prefer"] = <<ReturnRepresentation>>

\* Select, Delete, a filter and Count through the Select builder, Execute
\* through the Delete builder
C28_Witness ==
    /\ Len(qbs) = 2
    /\ qbs[1].rb = 1 /\ qbs[2].rb = 1
    /\ qbs[1].entry = "Select" /\ qbs[2].entry = "Delete"
    /\ Len(log) = 1 /\ log[1].b = 1
    /\ qbs[1].isCount
    /\ thr[1].pc = "waiting" /\ thr[1].b = 2
    /\ thr[1].req.method = "DELETE"
    /\ thr[1].req.query = <<"s","e","l","e","c","t","=","a","&","x","=","e","q",".","a">>
    /\ thr[1].req.header["Prefer"] = <<CountExact>>

\* a part of a query read as a pair: the key before its first =, the value
\* after it
PairOf(part) ==
    IF \E i \in 1..Len(part) : part[i] = "="
    THEN LET i == CHOOSE j \in 1..Len(part) :
                      part[j] = "=" /\ \A k \in 1..(j - 1) : part[k] # "="
         IN  [key |-> SubSeq(part, 1, i - 1), value |-> SubSeq(part, i + 1, Len(part))]
    ELSE [key |-> part, value |-> <<>>]

\* the pairs a query reads as: its parts between the & characters, none for
\* the empty query
QueryPairs(query) ==
    IF query = <<>> THEN <<>>
    ELSE [p \in 1..Len(QueryParts(query)) |-> PairOf(QueryParts(query)[p])]

\* how many times the parameters hold the value under the key
TimesStored(params, key, value) ==
    IF key \in DOMAIN params
    THEN Cardinality({i \in 1..Len(params[key]) : params[key][i] = value})
    ELSE 0

\* how many times the pairs hold the pair of key and value
TimesRead(pairs, key, value) ==
    Cardinality({p \in 1..Len(pairs) : pairs[p] = [key |-> key, value |-> value]})

\* C29: the query of every request sent reads, split on & and on the first
\* = of each part, as exactly the (key, value) parameters of the builder,
\* each as many times as it is stored.
C29_QueryRoundTrips ==
    \A rb \in 1..Len(rbs) :
        thr[rb].pc = "waiting" =>
            LET params == rbs[rb].params
                pairs == QueryPairs(thr[rb].req.query)
            IN  /\ \A p \in 1..Len(pairs) :
                      TimesRead(pairs, pairs[p].key, pairs[p].value)
                          = TimesStored(params, pairs[p].key, pairs[p].value)
                /\ \A key \in DOMAIN params : \A i \in 1..Len(params[key]) :
                      TimesRead(pairs, key, params[key][i]) = Len(params[key])
                          - Cardinality({j \in 1..Len(params[key]) :
                                            params[key][j] # params[key][i]})

\* C30: an Execute call of a RpcRequestBuilder with a nil result container,
\* answered with a success response that has a body, returns no error and
\* writes nothing.
C30_RpcNilResultIgnoresBody ==
    \A rb \in 1..Len(rbs) :
        (/\ Answered(rb)
         /\ qbs[thr[rb].b].kind = "rpc"
         /\ thr[rb].r = Nil
         /\ Success(thr[rb].resp)
         /\ thr[rb].resp.body # <<>>)
        => (thr[rb].err = NoErr /\ thr[rb].out = NoOut)

====
